---- MODULE Spec2Model ----
(***************************************************************************)
(* Model of recal's bounded cache store (internal/cache/cache.go) and of   *)
(* the revalidation coordinator (Server.fetchUpstream and its caller       *)
(* Server.ServeHTTP in internal/server/server.go).                         *)
(*                                                                         *)
(* Time is a natural-number clock `now` (one unit = one tick of            *)
(* time.Now()); durations are integers in the same unit.  Byte slices and  *)
(* header values are strings, so len() is Len().  Every section of code    *)
(* that runs under c.mu is one atomic action; Cache.Get takes the lock     *)
(* several times and is therefore several actions.                         *)
(***************************************************************************)
EXTENDS Integers, Sequences, FiniteSets, TLC

VARIABLES
    now,            \* the wall clock read by time.Now()
    upstreamCache,  \* Server.upstreamCache: a Cache
    filteredCache,  \* Server.filteredCache: a Cache
    th,             \* per goroutine: position in the running call and its locals
    last,           \* the store call the last step completed, if it completed one
    req,            \* per goroutine: the /filter request it is serving
    hashed          \* the calls of HashKey and createCacheKey made: input and key

vars == <<now, upstreamCache, filteredCache, th, last, req, hashed>>

(***************************************************************************)
(* Bounds of the model.                                                    *)
(***************************************************************************)
MaxTime == 2        \* the clock stops advancing here
MaxCount == 2       \* calls are not started once the counters add up to this
MaxRequests == 3    \* /filter requests served
MaxComponents == 2  \* components passed to one HashKey call

Threads == {1, 2}   \* goroutines of the concurrent specifications
SeqThreads == {1}   \* the single caller of the sequential specifications

\* Keys passed to the store; the empty string is a legal Go map key.
Keys == {"", "a", "b"}
\* Payloads: one small, one larger than the small memory budget on its own.
Payloads == {"x", "0123456789012345678901234567890123456789"}
\* (etag, lastModified) pairs passed to Set.
Validators == {<<"e1", "Mon">>}
\* TTLs passed to Set under Spec: zero, which is stored as the minimum.
TTLs == {0}

(***************************************************************************)
(* Entry (cache.go:11-26)                                                  *)
(***************************************************************************)
Entry(data, expiry, etag, lastModified) ==
    [Data |-> data, Expiry |-> expiry, ETag |-> etag, LastModified |-> lastModified]

\* The nil *Entry.
NilEntry == Entry("", 0, "", "")

\* IsExpired with the comparison the wrong way round.
IsExpired_Reversed(e, t) == e.Expiry > t

\* time.Now().After(e.Expiry), with t the value of time.Now()
IsExpired(e, t) == t > e.Expiry

Size(e) == Len(e.Data) + Len(e.ETag) + Len(e.LastModified) + 24

(***************************************************************************)
(* Cache (cache.go:29-66)                                                  *)
(***************************************************************************)
NewCacheWithMemoryLimit(maxSize, defaultTTL, minTTL, maxMemory, maxTTL) ==
    [entries   |-> <<>>,
     maxSize   |-> maxSize,
     maxMemory |-> maxMemory,
     maxTTL    |-> maxTTL,
     ttl       |-> defaultTTL,
     minTTL    |-> minTTL,
     accessLRU |-> <<>>,
     memory    |-> 0,
     hits      |-> 0,
     misses    |-> 0,
     evictions |-> 0,
     mu        |-> "unlocked"]

\* delete(m, k) on a Go map
MapDelete(m, k) == [x \in DOMAIN m \ {k} |-> m[x]]

\* m[k] = v that leaves a key already present as it is.
MapPut_KeepPresent(m, k, v) ==
    [x \in DOMAIN m \cup {k} |-> IF x \in DOMAIN m THEN m[x] ELSE v]

\* m[k] = v on a Go map
MapPut(m, k, v) == [x \in DOMAIN m \cup {k} |-> IF x = k THEN v ELSE m[x]]

RECURSIVE SumSize(_, _)
SumSize(entries, ks) ==
    IF ks = {} THEN 0
    ELSE LET k == CHOOSE x \in ks : TRUE
         IN Size(entries[k]) + SumSize(entries, ks \ {k})

\* The sum of Size() over the entries present.
TotalSize(c) == SumSize(c.entries, DOMAIN c.entries)

(***************************************************************************)
(* evictLRU (cache.go:180-205).  The scan keeps the first key of the map   *)
(* iteration whose access time is not after any other, and Go iterates a   *)
(* map in an unspecified order: any key of minimal access time can be the  *)
(* one scanned out.                                                        *)
(***************************************************************************)
\* The scan keeping the most recently accessed key instead.
OldestKeys_Newest(c) ==
    {k \in DOMAIN c.accessLRU :
        \A o \in DOMAIN c.accessLRU : c.accessLRU[k] >= c.accessLRU[o]}

OldestKeys(c) ==
    {k \in DOMAIN c.accessLRU :
        \A o \in DOMAIN c.accessLRU : c.accessLRU[k] <= c.accessLRU[o]}

\* One evictLRU call whose scan ended with oldestKey = k.
evictLRU(c, k) ==
    IF Cardinality(DOMAIN c.entries) = 0 \/ k = "" THEN c
    ELSE [c EXCEPT
            !.memory    = IF k \in DOMAIN c.entries
                          THEN @ - Size(c.entries[k]) ELSE @,
            !.entries   = MapDelete(@, k),
            !.accessLRU = MapDelete(@, k),
            !.evictions = @ + 1]

\* What the log keeps of one evictLRU call: the key removed, its access
\* time, and the access times of the other keys at that moment.
EvictRecord(c, k) ==
    [key |-> k, at |-> c.accessLRU[k],
     others |-> {c.accessLRU[o] : o \in DOMAIN c.accessLRU \ {k}}]

\* The loop condition letting the store fill one entry past its capacity.
MustEvict_OffByOne(c, newSize) ==
    /\ \/ Cardinality(DOMAIN c.entries) > c.maxSize
       \/ c.memory + newSize > c.maxMemory
    /\ Cardinality(DOMAIN c.entries) > 0

\* The loop condition without its memory clause.
MustEvict_CountOnly(c, newSize) ==
    /\ Cardinality(DOMAIN c.entries) >= c.maxSize
    /\ Cardinality(DOMAIN c.entries) > 0

\* The loop condition evicting one entry before the store is full.
MustEvict_Eager(c, newSize) ==
    /\ \/ Cardinality(DOMAIN c.entries) + 1 >= c.maxSize
       \/ c.memory + newSize > c.maxMemory
    /\ Cardinality(DOMAIN c.entries) > 0

\* The loop condition of Set (cache.go:134).
MustEvict(c, newSize) ==
    /\ \/ Cardinality(DOMAIN c.entries) >= c.maxSize
       \/ c.memory + newSize > c.maxMemory
    /\ Cardinality(DOMAIN c.entries) > 0

(***************************************************************************)
(* The eviction loop of Set (cache.go:134-136): the set of its outcomes,   *)
(* each the cache after the loop and the log of its evictions.  A call of  *)
(* evictLRU that scans out the key "" removes nothing (cache.go:197); when *)
(* "" is the only oldest key every call does so and the loop spins with    *)
(* the lock held (mu = "locked").  When "" ties with other keys the scan   *)
(* ends on one of the others after finitely many calls.                    *)
(***************************************************************************)
RECURSIVE EvictLoop(_, _, _)
EvictLoop(c, newSize, log) ==
    IF ~MustEvict(c, newSize) THEN {[c |-> c, log |-> log]}
    ELSE IF OldestKeys(c) \ {""} = {}
         THEN {[c |-> [c EXCEPT !.mu = "locked"], log |-> log]}
         ELSE UNION {EvictLoop(evictLRU(c, k), newSize, Append(log, EvictRecord(c, k))) :
                        k \in OldestKeys(c) \ {""}}

\* The clamp without its lower bound.
ClampTTL_MaxOnly(c, ttl) == IF ttl > c.maxTTL THEN c.maxTTL ELSE ttl

\* The TTL Set stores (cache.go:110-118).
ClampTTL(c, ttl) ==
    LET t1 == IF ttl < c.minTTL THEN c.minTTL ELSE ttl
    IN IF t1 > c.maxTTL THEN c.maxTTL ELSE t1

\* A Set that updates a present entry in place: new data and expiry, the
\* validators left as they were.
CacheSet_UpdateInPlace(c, key, data, ttl, etag, lastModified, t) ==
    LET old      == IF key \in DOMAIN c.entries THEN c.entries[key]
                    ELSE Entry("", 0, etag, lastModified)
        newEntry == Entry(data, t + ClampTTL(c, ttl), old.ETag, old.LastModified)
        newSize  == Size(newEntry)
        c1 == IF key \in DOMAIN c.entries
              THEN [c EXCEPT !.memory = @ - Size(c.entries[key])]
              ELSE c
    IN {IF o.c.mu = "locked" THEN o
        ELSE [o EXCEPT !.c = [o.c EXCEPT
                                !.entries   = MapPut(@, key, newEntry),
                                !.accessLRU = MapPut(@, key, t),
                                !.memory    = @ + newSize]] :
          o \in EvictLoop(c1, newSize, <<>>)}

(***************************************************************************)
(* Set (cache.go:106-141), called at time t: the set of its outcomes.      *)
(***************************************************************************)
CacheSet(c, key, data, ttl, etag, lastModified, t) ==
    LET newEntry == Entry(data, t + ClampTTL(c, ttl), etag, lastModified)
        newSize  == Size(newEntry)
        c1 == IF key \in DOMAIN c.entries
              THEN [c EXCEPT !.memory = @ - Size(c.entries[key])]
              ELSE c
    IN {IF o.c.mu = "locked" THEN o
        ELSE [o EXCEPT !.c = [o.c EXCEPT
                                !.entries   = MapPut(@, key, newEntry),
                                !.accessLRU = MapPut(@, key, t),
                                !.memory    = @ + newSize]] :
          o \in EvictLoop(c1, newSize, <<>>)}

\* A Delete that forgets the entry but not its size.
CacheDelete_KeepMemory(c, key) ==
    [c EXCEPT !.entries = MapDelete(@, key), !.accessLRU = MapDelete(@, key)]

\* Delete (cache.go:149-158)
CacheDelete(c, key) ==
    [c EXCEPT
        !.memory    = IF key \in DOMAIN c.entries
                      THEN @ - Size(c.entries[key]) ELSE @,
        !.entries   = MapDelete(@, key),
        !.accessLRU = MapDelete(@, key)]

\* A Clear that also resets the counters.
CacheClear_ResetCounters(c) ==
    [c EXCEPT !.entries = <<>>, !.accessLRU = <<>>, !.memory = 0,
              !.hits = 0, !.misses = 0, !.evictions = 0]

\* Clear (cache.go:161-168)
CacheClear(c) ==
    [c EXCEPT !.entries = <<>>, !.accessLRU = <<>>, !.memory = 0]

\* A sweep that also takes the entries expiring at this very moment.
ExpiredKeys_AtExpiry(c, t) == {k \in DOMAIN c.entries : t >= c.entries[k].Expiry}

\* The keys CleanupExpired removes at time t (cache.go:216-217).
ExpiredKeys(c, t) == {k \in DOMAIN c.entries : t > c.entries[k].Expiry}

\* CleanupExpired (cache.go:209-226)
CacheCleanupExpired(c, t) ==
    LET gone == ExpiredKeys(c, t)
    IN [c EXCEPT
            !.memory    = @ - SumSize(c.entries, gone),
            !.entries   = [k \in DOMAIN @ \ gone |-> @[k]],
            !.accessLRU = [k \in DOMAIN @ \ gone |-> @[k]]]

(***************************************************************************)
(* The lock sections of Get (cache.go:70-101).                             *)
(***************************************************************************)
\* cache.go:76-78
GetMissSection(c) == [c EXCEPT !.misses = @ + 1]

\* A removal of an expired entry that keeps its size accounted.
GetExpiredSection_KeepMemory(c, key, entry) ==
    [c EXCEPT
        !.entries   = MapDelete(@, key),
        !.accessLRU = MapDelete(@, key),
        !.misses    = @ + 1]

\* cache.go:85-90: entry is the *Entry read in the first section
GetExpiredSection(c, key, entry) ==
    [c EXCEPT
        !.entries   = MapDelete(@, key),
        !.accessLRU = MapDelete(@, key),
        !.memory    = @ - Size(entry),
        !.misses    = @ + 1]

\* A hit that counts but leaves the access time alone.
GetHitSection_NoTouch(c, key, t) == [c EXCEPT !.hits = @ + 1]

\* A hit that also renews the entry's expiry (a sliding expiration).
GetHitSection_ExtendExpiry(c, key, t) ==
    [c EXCEPT !.accessLRU = MapPut(@, key, t), !.hits = @ + 1,
              !.entries = IF key \in DOMAIN @
                          THEN [@ EXCEPT ![key].Expiry = t + c.ttl] ELSE @]

\* cache.go:95-98
GetHitSection(c, key, t) ==
    [c EXCEPT !.accessLRU = MapPut(@, key, t), !.hits = @ + 1]

\* GetStats (cache.go:244-267); the ratio is kept as the pair it is computed from.
GetStats(c) ==
    [Entries   |-> Cardinality(DOMAIN c.entries),
     MaxSize   |-> c.maxSize,
     Memory    |-> c.memory,
     MaxMemory |-> c.maxMemory,
     Hits      |-> c.hits,
     Misses    |-> c.misses,
     Evictions |-> c.evictions]

(***************************************************************************)
(* Goroutines calling one store.                                           *)
(***************************************************************************)
Idle == [pc |-> "idle", key |-> "", entry |-> NilEntry, checked |-> 0]

\* The record of a completed call: its name, its key and TTL arguments, what
\* Get returned as found (for Delete: whether the key existed), the
\* evictLRU calls a Set made, in order, the count CleanupExpired
\* returned, the Stats value GetStats returned, and the entry Get returned
\* with found = true.
Call(op, key, ttl, found, log) ==
    [op |-> op, key |-> key, ttl |-> ttl, found |-> found, evicted |-> log,
     removed |-> 0, stats |-> <<>>, entry |-> NilEntry]

NoCall == Call("none", "", 0, FALSE, <<>>)

Unlocked(c) == c.mu = "unlocked"

\* Calls are started only below the counter bound.
CanCount(c) == c.hits + c.misses + c.evictions < MaxCount

\* cache.go:71-73: Get reads the map under the read lock
GetRLock(t, key) ==
    /\ th[t].pc = "idle"
    /\ Unlocked(upstreamCache)
    /\ CanCount(upstreamCache)
    /\ th' = [th EXCEPT ![t] =
                IF key \in DOMAIN upstreamCache.entries
                THEN [pc |-> "Get_check", key |-> key,
                      entry |-> upstreamCache.entries[key], checked |-> 0]
                ELSE [pc |-> "Get_miss", key |-> key,
                      entry |-> NilEntry, checked |-> 0]]
    /\ UNCHANGED <<req, now, upstreamCache, filteredCache, hashed>>
    /\ last' = NoCall

\* cache.go:75-80
GetMiss(t) ==
    /\ th[t].pc = "Get_miss"
    /\ Unlocked(upstreamCache)
    /\ upstreamCache' = GetMissSection(upstreamCache)
    /\ th' = [th EXCEPT ![t] = Idle]
    /\ UNCHANGED <<req, now, filteredCache, hashed>>
    /\ last' = Call("Get", th[t].key, 0, FALSE, <<>>)

\* cache.go:83: entry.IsExpired() reads the clock, outside any lock
GetIsExpired(t) ==
    /\ th[t].pc = "Get_check"
    /\ th' = [th EXCEPT ![t].pc =
                IF IsExpired(th[t].entry, now) THEN "Get_expired" ELSE "Get_hit",
              ![t].checked = now]
    /\ UNCHANGED <<req, now, upstreamCache, filteredCache, hashed>>
    /\ last' = NoCall

\* cache.go:84-91
GetExpired(t) ==
    /\ th[t].pc = "Get_expired"
    /\ Unlocked(upstreamCache)
    /\ upstreamCache' = GetExpiredSection(upstreamCache, th[t].key, th[t].entry)
    /\ th' = [th EXCEPT ![t] = Idle]
    /\ UNCHANGED <<req, now, filteredCache, hashed>>
    /\ last' = Call("Get", th[t].key, 0, FALSE, <<>>)

\* cache.go:94-100
GetHit(t) ==
    /\ th[t].pc = "Get_hit"
    /\ Unlocked(upstreamCache)
    /\ upstreamCache' = GetHitSection(upstreamCache, th[t].key, now)
    /\ th' = [th EXCEPT ![t] = Idle]
    /\ UNCHANGED <<req, now, filteredCache, hashed>>
    /\ last' = [Call("Get", th[t].key, 0, TRUE, <<>>) EXCEPT !.entry = th[t].entry]

\* cache.go:106-141
Set(t, key, data, ttl, etag, lastModified) ==
    /\ th[t].pc = "idle"
    /\ Unlocked(upstreamCache)
    /\ CanCount(upstreamCache)
    /\ \E o \in CacheSet(upstreamCache, key, data, ttl, etag, lastModified, now) :
          /\ upstreamCache' = o.c
          /\ last' = IF o.c.mu = "locked" THEN NoCall
                     ELSE Call("Set", key, ttl, FALSE, o.log)
          /\ th' = [th EXCEPT ![t] =
                      IF o.c.mu = "locked"
                      THEN [Idle EXCEPT
                              !.pc = "Set_spin", !.key = key,
                              !.entry = Entry(data, now + ClampTTL(upstreamCache, ttl),
                                              etag, lastModified)]
                      ELSE Idle]
          /\ UNCHANGED <<req, now, filteredCache, hashed>>

\* cache.go:149-158
Delete(t, key) ==
    /\ th[t].pc = "idle"
    /\ Unlocked(upstreamCache)
    /\ upstreamCache' = CacheDelete(upstreamCache, key)
    /\ UNCHANGED <<req, now, filteredCache, th, hashed>>
    /\ last' = Call("Delete", key, 0, key \in DOMAIN upstreamCache.entries, <<>>)

\* cache.go:161-168
Clear(t) ==
    /\ th[t].pc = "idle"
    /\ Unlocked(upstreamCache)
    /\ upstreamCache' = CacheClear(upstreamCache)
    /\ UNCHANGED <<req, now, filteredCache, th, hashed>>
    /\ last' = Call("Clear", "", 0, FALSE, <<>>)

\* cache.go:209-226
CleanupExpired(t) ==
    /\ th[t].pc = "idle"
    /\ Unlocked(upstreamCache)
    /\ upstreamCache' = CacheCleanupExpired(upstreamCache, now)
    /\ UNCHANGED <<req, now, filteredCache, th, hashed>>
    /\ last' = [Call("CleanupExpired", "", 0, FALSE, <<>>) EXCEPT
                    !.removed = Cardinality(ExpiredKeys(upstreamCache, now))]

\* The clock advances.
Tick ==
    /\ now < MaxTime
    /\ now' = now + 1
    /\ UNCHANGED <<req, upstreamCache, filteredCache, th, hashed>>
    /\ last' = NoCall

(***************************************************************************)
(* Get as one call (cache.go:70-101) made at time t by a caller that is    *)
(* alone on the store: its lock sections in sequence.                      *)
(***************************************************************************)
CacheGet(c, key, t) ==
    IF key \notin DOMAIN c.entries
    THEN [c |-> GetMissSection(c), found |-> FALSE, entry |-> NilEntry]
    ELSE IF IsExpired(c.entries[key], t)
         THEN [c |-> GetExpiredSection(c, key, c.entries[key]),
               found |-> FALSE, entry |-> NilEntry]
         ELSE [c |-> GetHitSection(c, key, t),
               found |-> TRUE, entry |-> c.entries[key]]

(***************************************************************************)
(* The fetcher (internal/fetcher/fetcher.go).                              *)
(***************************************************************************)
\* Upstream addresses of the model, and what url.Parse makes of them.
URLs == {"http://origin/a.ics", "http://origin/b.ics", "http://localhost/c.ics"}

URLScheme(u) == "http"

URLHostname(u) == IF u = "http://localhost/c.ics" THEN "localhost" ELSE "origin"

\* validateURL (fetcher.go:159-206) with disableSSRFChecks = false: TRUE when
\* the address is accepted.  No host of the model starts with "10.",
\* "192.168." or "172.16." to "172.31.".
validateURL(u) ==
    /\ u # ""
    /\ URLScheme(u) \in {"http", "https"}
    /\ URLHostname(u) \notin {"localhost", "127.0.0.1", "::1"}

\* What the origin can answer to one request: a failed exchange, or a status
\* with headers and body (fetcher.go:15-22).
Response(status, body, etag, lastModified, cacheControl, expires) ==
    [StatusCode |-> status, Body |-> body, ETag |-> etag,
     LastModified |-> lastModified, CacheControl |-> cacheControl,
     Expires |-> expires]

OriginAnswers ==
    {Response(0, "", "", "", "", ""),            \* client.Do or io.ReadAll failed
     Response(500, "", "", "", "", ""),
     Response(304, "", "", "", "", ""),
     Response(200, "CU", "e1", "Mon", "", ""),
     Response(200, "CU", "e1", "Mon", "max-age=3", ""),
     Response(200, "C", "e2", "", "", ""),
     Response(200, "C", "e2", "", "max-age=3", "")}

\* A Fetch that takes a 304 answer for a not-modified outcome, as
\* FetchConditional does.
FetchOutcome_AcceptNotModified(a) ==
    IF a.StatusCode = 304 THEN [err |-> FALSE, notModified |-> TRUE, resp |-> a]
    ELSE IF a.StatusCode = 200 THEN [err |-> FALSE, notModified |-> FALSE, resp |-> a]
    ELSE [err |-> TRUE, notModified |-> FALSE, resp |-> a]

\* The outcome of Fetch (fetcher.go:57-98) for an answer of the origin.
FetchOutcome(a) ==
    IF a.StatusCode = 200 THEN [err |-> FALSE, notModified |-> FALSE, resp |-> a]
    ELSE [err |-> TRUE, notModified |-> FALSE, resp |-> a]

\* The outcome of FetchConditional (fetcher.go:102-156).
FetchConditionalOutcome(a) ==
    IF a.StatusCode = 304 THEN [err |-> FALSE, notModified |-> TRUE, resp |-> a]
    ELSE IF a.StatusCode = 200 THEN [err |-> FALSE, notModified |-> FALSE, resp |-> a]
    ELSE [err |-> TRUE, notModified |-> FALSE, resp |-> a]

\* The request FetchConditional sends (fetcher.go:108-123): a header is set
\* only for a non-empty validator.  Fetch sends none (fetcher.go:64-70).
Request(u, conditional, etag, lastModified) ==
    [url |-> u, conditional |-> conditional,
     IfNoneMatch |-> etag, IfModifiedSince |-> lastModified]

\* ParseCacheHeaders (fetcher.go:210-244) on the header values of the model,
\* in clock units: "max-age=3" is longer than 8 bytes, starts with
\* "max-age=" and scans as 3; "" has no directive; no answer of the model
\* carries an Expires header.
ParseCacheHeaders(cacheControl, expires) ==
    IF cacheControl = "max-age=3" THEN 3 ELSE 0

(***************************************************************************)
(* The server (internal/server/server.go).                                 *)
(***************************************************************************)
\* config.CacheConfig as validated by config.validate (config.go:169-187).
cfg == [MaxSize |-> 2, DefaultTTL |-> 1, MinOutputCache |-> 1,
        MaxMemory |-> 100, MaxTTL |-> 2]

\* FilterParam (server.go:538-541)
FilterParam(fields, pattern) == [Fields |-> fields, Pattern |-> pattern]

\* Params with its SpecialFilters (server.go:530-549)
FullParams(upstream, filters, grad, loge, removeUnconfirmed, removeInstallt, debug) ==
    [Upstream |-> upstream, Filters |-> filters, Grad |-> grad, Loge |-> loge,
     RemoveUnconfirmed |-> removeUnconfirmed, RemoveInstallt |-> removeInstallt,
     Debug |-> debug]

\* The Params of the requests served in the model: an upstream address and
\* the RemoveUnconfirmed flag; no other filter is set.
Params(upstream, removeUnconfirmed) ==
    FullParams(upstream, <<>>, "", "", removeUnconfirmed, FALSE, FALSE)

NoParams == Params("", FALSE)

RequestParams ==
    {Params("http://origin/a.ics", FALSE), Params("http://origin/a.ics", TRUE),
     Params("http://origin/b.ics", FALSE), Params("http://localhost/c.ics", FALSE)}

\* The byte that HashKey writes after each component (cache.go:275).
Separator == "^@"

\* HashKey (cache.go:271-278): the digest is taken as injective and stands
\* as the bytes it is computed from.
RECURSIVE HashKey(_)
HashKey(components) ==
    IF components = <<>> THEN ""
    ELSE Head(components) \o Separator \o HashKey(Tail(components))

\* The components one filter adds (server.go:684-685)
FilterComponents(f) == f.Fields \o <<f.Pattern>>

\* The components of all filters, in order (server.go:683-686)
RECURSIVE FiltersComponents(_)
FiltersComponents(filters) ==
    IF filters = <<>> THEN <<>>
    ELSE FilterComponents(Head(filters)) \o FiltersComponents(Tail(filters))

\* The component list createCacheKey builds (server.go:680-705)
CacheKeyComponents(params) ==
    <<params.Upstream>>
    \o FiltersComponents(params.Filters)
    \o (IF params.Grad # "" THEN <<"Grad:" \o params.Grad>> ELSE <<>>)
    \o (IF params.Loge # "" THEN <<"Loge:" \o params.Loge>> ELSE <<>>)
    \o (IF params.RemoveUnconfirmed THEN <<"RemoveUnconfirmed:true">> ELSE <<>>)
    \o (IF params.RemoveInstallt THEN <<"RemoveInstallt:true">> ELSE <<>>)
    \o (IF params.Debug THEN <<"debug:true">> ELSE <<>>)

\* createCacheKey (server.go:679-708)
createCacheKey(params) == HashKey(CacheKeyComponents(params))

\* parser.Parse, Engine.Apply and Calendar.Serialize (server.go:133-153) on
\* the documents of the model: "CU" holds a confirmed and an unconfirmed
\* event, "C" a confirmed one; RemoveUnconfirmed drops the unconfirmed one.
Transform(body, params) ==
    IF params.RemoveUnconfirmed /\ body = "CU" THEN "C" ELSE body

\* The documents parser.Parse accepts; any other body is not a calendar
\* (server.go:132-136, parser_test.go:237-270).
Calendars == {"CU", "C"}

\* A pattern regexp.Compile rejects (unnamed/part_001:44-52).
BadPattern == "("

\* The status ServeHTTP answers after fetchUpstream returned a document
\* (server.go:131-165): 500 when parser.Parse fails, 400 when buildFilters
\* fails, 200 otherwise.  Serialize writes to a bytes.Buffer and does not
\* fail on the calendars of the model.
TransformStatus(body, params) ==
    IF body \notin Calendars THEN 500
    ELSE IF \E i \in DOMAIN params.Filters : params.Filters[i].Pattern = BadPattern
    THEN 400
    ELSE 200

\* The locals of a ServeHTTP call and of the fetchUpstream call inside it.
\* `sent` lists the requests sent to the origin by this fetchUpstream call;
\* `before` holds the entries of both caches when fetchUpstream was entered.
NoRequest ==
    [pc |-> "idle", params |-> NoParams, cacheKey |-> "",
     found |-> FALSE, entry |-> NilEntry, sent |-> <<>>,
     notModified |-> FALSE, resp |-> Response(0, "", "", "", "", ""),
     data |-> "", ttl |-> 0,
     before |-> [upstream |-> <<>>, filtered |-> <<>>],
     status |-> 0, body |-> "", maxAge |-> 0]

\* New (server.go:37-68)
NewServerUpstreamCache ==
    NewCacheWithMemoryLimit(cfg.MaxSize, cfg.DefaultTTL, cfg.MinOutputCache,
                            cfg.MaxMemory, cfg.MaxTTL)

NewServerFilteredCache ==
    NewCacheWithMemoryLimit(cfg.MaxSize * 2, cfg.DefaultTTL, cfg.MinOutputCache,
                            cfg.MaxMemory * 2, cfg.MaxTTL)

\* time.Until(entry.Expiry) at time t
Until(expiry, t) == expiry - t

\* A ServeHTTP that calls fetchUpstream whatever the output cache holds.
ServeLookup_AlwaysResolve(t, params) ==
    /\ req[t].pc = "idle"
    /\ filteredCache.hits + filteredCache.misses < MaxRequests
    /\ LET key == createCacheKey(params)
           g == CacheGet(filteredCache, key, now)
       IN /\ filteredCache' = g.c
          /\ req' = [req EXCEPT ![t] =
                        [NoRequest EXCEPT
                           !.pc = "fetchUpstream", !.params = params, !.cacheKey = key]]
    /\ last' = NoCall
    /\ UNCHANGED <<now, upstreamCache, th, hashed>>

\* ServeHTTP up to the call of fetchUpstream (server.go:71-123): the output
\* cache is looked up; a hit is served by serveFromCache (server.go:511-527).
ServeLookup(t, params) ==
    /\ req[t].pc = "idle"
    /\ filteredCache.hits + filteredCache.misses < MaxRequests
    /\ LET key == createCacheKey(params)
           g == CacheGet(filteredCache, key, now)
       IN /\ filteredCache' = g.c
          /\ req' = [req EXCEPT ![t] =
                IF g.found
                THEN [NoRequest EXCEPT
                        !.status = 200, !.body = g.entry.Data,
                        !.maxAge = IF Until(g.entry.Expiry, now) < 0 THEN 0
                                   ELSE Until(g.entry.Expiry, now)]
                ELSE [NoRequest EXCEPT
                        !.pc = "fetchUpstream", !.params = params, !.cacheKey = key]]
    /\ last' = NoCall
    /\ UNCHANGED <<now, upstreamCache, th, hashed>>

\* fetchUpstream up to the call of the fetcher (server.go:471-475, 496-497):
\* the raw-document cache is looked up.
ResolveLookup(t) ==
    /\ req[t].pc = "fetchUpstream"
    /\ LET g == CacheGet(upstreamCache, req[t].params.Upstream, now)
       IN /\ upstreamCache' = g.c
          /\ req' = [req EXCEPT ![t].pc = "fetch",
                                ![t].found = g.found,
                                ![t].entry = g.entry,
                                ![t].before = [upstream |-> upstreamCache.entries,
                                               filtered |-> filteredCache.entries]]
    /\ last' = NoCall
    /\ UNCHANGED <<now, filteredCache, th, hashed>>

\* A fetchUpstream that returns a cached document without asking the origin.
FetchSend_ServeCached(t) ==
    /\ req[t].pc = "fetch"
    /\ req' = [req EXCEPT ![t] =
                IF req[t].found
                THEN [@ EXCEPT !.pc = "resolved", !.data = req[t].entry.Data,
                               !.ttl = Until(req[t].entry.Expiry, now)]
                ELSE IF validateURL(req[t].params.Upstream)
                THEN [@ EXCEPT !.pc = "awaiting",
                               !.sent = Append(@, Request(req[t].params.Upstream,
                                                  FALSE, "", ""))]
                ELSE [@ EXCEPT !.pc = "failed"]]
    /\ last' = NoCall
    /\ UNCHANGED <<now, upstreamCache, filteredCache, th, hashed>>

\* Fetch or FetchConditional up to client.Do (fetcher.go:57-73, 102-126):
\* an address validateURL rejects fails without a request.
FetchSend(t) ==
    /\ req[t].pc = "fetch"
    /\ req' = [req EXCEPT ![t] =
                IF validateURL(req[t].params.Upstream)
                THEN [@ EXCEPT !.pc = "awaiting",
                               !.sent = Append(@, Request(req[t].params.Upstream,
                                                  req[t].found, req[t].entry.ETag,
                                                  req[t].entry.LastModified))]
                ELSE [@ EXCEPT !.pc = "failed"]]
    /\ last' = NoCall
    /\ UNCHANGED <<now, upstreamCache, filteredCache, th, hashed>>

\* The TTL fetchUpstream takes from a response (server.go:486-489, 502-505)
ResponseTTL(resp) ==
    LET ttl == ParseCacheHeaders(resp.CacheControl, resp.Expires)
    IN IF ttl = 0 THEN cfg.DefaultTTL ELSE ttl

\* A fetchUpstream that stores every document with the default TTL.
FetchedNew_DefaultTTL(t, resp) ==
    \E s \in CacheSet(upstreamCache, req[t].params.Upstream, resp.Body,
                      cfg.DefaultTTL, resp.ETag, resp.LastModified, now) :
          /\ upstreamCache' = s.c
          /\ last' = Call("Set", req[t].params.Upstream, cfg.DefaultTTL, FALSE, s.log)
          /\ req' = [req EXCEPT ![t].pc = "resolved",
                                ![t].resp = resp,
                                ![t].data = resp.Body,
                                ![t].ttl = cfg.DefaultTTL]

\* fetchUpstream stores a fetched document and returns it (server.go:485-492
\* after a hit, 502-508 after a miss).
FetchedNew(t, resp) ==
    LET ttl == ResponseTTL(resp)
    IN \E s \in CacheSet(upstreamCache, req[t].params.Upstream, resp.Body,
                         ttl, resp.ETag, resp.LastModified, now) :
          /\ upstreamCache' = s.c
          /\ last' = Call("Set", req[t].params.Upstream, ttl, FALSE, s.log)
          /\ req' = [req EXCEPT ![t].pc = "resolved",
                                ![t].resp = resp,
                                ![t].data = resp.Body,
                                ![t].ttl = ttl]

\* A not-modified answer that rewrites the entry with the default TTL.
FetchedNotModified_Refresh(t) ==
    \E s \in CacheSet(upstreamCache, req[t].params.Upstream, req[t].entry.Data,
                      cfg.DefaultTTL, req[t].entry.ETag,
                      req[t].entry.LastModified, now) :
          /\ upstreamCache' = s.c
          /\ last' = Call("Set", req[t].params.Upstream, cfg.DefaultTTL, FALSE, s.log)
          /\ req' = [req EXCEPT ![t].pc = "resolved",
                                ![t].notModified = TRUE,
                                ![t].data = req[t].entry.Data,
                                ![t].ttl = cfg.DefaultTTL]

\* fetchUpstream returns the cached document (server.go:480-483)
FetchedNotModified(t) ==
    /\ req' = [req EXCEPT ![t].pc = "resolved",
                          ![t].notModified = TRUE,
                          ![t].data = req[t].entry.Data,
                          ![t].ttl = Until(req[t].entry.Expiry, now)]
    /\ last' = NoCall
    /\ UNCHANGED upstreamCache

\* A failed fetch that drops the cached entry.
FetchFailed_Invalidate(t, o) ==
    /\ req' = [req EXCEPT ![t].pc = "failed", ![t].resp = o.resp]
    /\ last' = NoCall
    /\ upstreamCache' = CacheDelete(upstreamCache, req[t].params.Upstream)

\* fetchUpstream returns the fetcher's error (server.go:476-478, 498-500);
\* the request keeps the answer of the origin that the fetcher turned down.
FetchFailed(t, o) ==
    /\ req' = [req EXCEPT ![t].pc = "failed", ![t].resp = o.resp]
    /\ last' = NoCall
    /\ UNCHANGED upstreamCache

\* A fetchUpstream that, after a hit, keeps the cached validators and expiry
\* and replaces only the payload.
FetchReturn_PatchPayload(t, o) ==
    IF o.err THEN FetchFailed(t, o)
    ELSE IF o.notModified THEN FetchedNotModified(t)
    ELSE IF req[t].found
    THEN /\ upstreamCache' =
               [upstreamCache EXCEPT
                  !.entries[req[t].params.Upstream].Data = o.resp.Body,
                  !.memory = @ + Len(o.resp.Body) - Len(req[t].entry.Data)]
         /\ last' = Call("Set", req[t].params.Upstream, ResponseTTL(o.resp), FALSE, <<>>)
         /\ req' = [req EXCEPT ![t].pc = "resolved",
                               ![t].resp = o.resp,
                               ![t].data = o.resp.Body,
                               ![t].ttl = ResponseTTL(o.resp)]
    ELSE FetchedNew(t, o.resp)

\* The rest of fetchUpstream once the fetcher has returned outcome o
\* (server.go:476-493 after a hit, 498-508 after a miss).
FetchReturn(t, o) ==
    IF o.err THEN FetchFailed(t, o)
    ELSE IF o.notModified THEN FetchedNotModified(t)
    ELSE FetchedNew(t, o.resp)

\* The origin answers the request in flight and fetchUpstream runs to its
\* return.
OriginAnswer(t) ==
    /\ req[t].pc = "awaiting"
    /\ \E a \in OriginAnswers :
          FetchReturn(t, IF req[t].found THEN FetchConditionalOutcome(a)
                         ELSE FetchOutcome(a))
    /\ UNCHANGED <<now, filteredCache, th, hashed>>

\* A ServeHTTP that stores the error answer in the output cache.
ServeBadGateway_CacheError(t) ==
    /\ req[t].pc = "failed"
    /\ \E s \in CacheSet(filteredCache, req[t].cacheKey, "", cfg.MinOutputCache,
                         "", "", now) :
          filteredCache' = s.c
    /\ req' = [req EXCEPT ![t] = [NoRequest EXCEPT !.status = 502]]
    /\ last' = NoCall
    /\ UNCHANGED <<now, upstreamCache, th, hashed>>

\* ServeHTTP after a failed fetchUpstream (server.go:124-128)
ServeBadGateway(t) ==
    /\ req[t].pc = "failed"
    /\ req' = [req EXCEPT ![t] = [NoRequest EXCEPT !.status = 502]]
    /\ last' = NoCall
    /\ UNCHANGED <<now, upstreamCache, filteredCache, th, hashed>>

\* A ServeHTTP that advertises the TTL of fetchUpstream as it is.
ServeFiltered_NoMinimum(t) ==
    /\ req[t].pc = "resolved"
    /\ LET output == Transform(req[t].data, req[t].params)
       IN \E s \in CacheSet(filteredCache, req[t].cacheKey, output,
                            req[t].ttl, "", "", now) :
              /\ filteredCache' = s.c
              /\ last' = Call("Set", req[t].cacheKey, req[t].ttl, FALSE, s.log)
              /\ req' = [req EXCEPT ![t] =
                            [NoRequest EXCEPT !.status = 200, !.body = output,
                                              !.maxAge = req[t].ttl]]
    /\ UNCHANGED <<now, upstreamCache, th, hashed>>

\* A ServeHTTP that stores the document of fetchUpstream in the output
\* cache before it parses and filters it.
ServeFiltered_StoreFirst(t) ==
    /\ req[t].pc = "resolved"
    /\ LET status == TransformStatus(req[t].data, req[t].params)
           output == Transform(req[t].data, req[t].params)
       IN \E s \in CacheSet(filteredCache, req[t].cacheKey, req[t].data,
                            req[t].ttl, "", "", now) :
              /\ filteredCache' = s.c
              /\ last' = Call("Set", req[t].cacheKey, req[t].ttl, FALSE, s.log)
              /\ req' = [req EXCEPT ![t] =
                            IF status # 200 THEN [NoRequest EXCEPT !.status = status]
                            ELSE [NoRequest EXCEPT !.status = 200, !.body = output,
                                                   !.maxAge = req[t].ttl]]
    /\ UNCHANGED <<now, upstreamCache, th, hashed>>

\* ServeHTTP after a successful fetchUpstream (server.go:130-167): a failed
\* parse or filter build answers with the error status and returns before
\* the output cache is written.
ServeFiltered(t) ==
    /\ req[t].pc = "resolved"
    /\ LET status == TransformStatus(req[t].data, req[t].params)
           output == Transform(req[t].data, req[t].params)
           cacheDuration == IF req[t].ttl < cfg.MinOutputCache
                            THEN cfg.MinOutputCache ELSE req[t].ttl
       IN IF status # 200
          THEN /\ req' = [req EXCEPT ![t] = [NoRequest EXCEPT !.status = status]]
               /\ last' = NoCall
               /\ UNCHANGED filteredCache
          ELSE \E s \in CacheSet(filteredCache, req[t].cacheKey, output,
                                 req[t].ttl, "", "", now) :
                  /\ filteredCache' = s.c
                  /\ last' = Call("Set", req[t].cacheKey, req[t].ttl, FALSE, s.log)
                  /\ req' = [req EXCEPT ![t] =
                                [NoRequest EXCEPT !.status = 200, !.body = output,
                                                  !.maxAge = cacheDuration]]
    /\ UNCHANGED <<now, upstreamCache, th, hashed>>

(***************************************************************************)
(* Spec: one caller, one store, calls made one after the other.            *)
(***************************************************************************)
\* Store parameters tried: one where the entry count binds first, one where
\* the memory budget does.
CacheConfigs ==
    {[maxSize |-> 2, maxMemory |-> 100],
     [maxSize |-> 3, maxMemory |-> 60]}

InitThreads ==
    /\ th = [t \in Threads |-> Idle]
    /\ req = [t \in Threads |-> NoRequest]
    /\ last = NoCall
    /\ hashed = <<>>

Init ==
    /\ now = 0
    /\ \E limits \in CacheConfigs :
          upstreamCache = NewCacheWithMemoryLimit(limits.maxSize, 1, 1, limits.maxMemory, 2)
    /\ filteredCache = NewCacheWithMemoryLimit(1, 1, 1, 1, 1)
    /\ InitThreads

CallGet(t) ==
    \/ \E key \in Keys : GetRLock(t, key)
    \/ GetMiss(t)
    \/ GetIsExpired(t)
    \/ GetExpired(t)
    \/ GetHit(t)

CallSet(t) ==
    \E key \in Keys, data \in Payloads, ttl \in TTLs, v \in Validators :
        Set(t, key, data, ttl, v[1], v[2])

CallDelete(t) == \E key \in Keys : Delete(t, key)

Next ==
    \/ \E t \in SeqThreads : CallGet(t)
    \/ \E t \in SeqThreads : CallSet(t)
    \/ \E t \in SeqThreads : CallDelete(t)
    \/ \E t \in SeqThreads : Clear(t)
    \/ \E t \in SeqThreads : CleanupExpired(t)
    \/ Tick

Spec == Init /\ [][Next]_vars

(***************************************************************************)
(* Properties of the store under Spec.                                     *)
(***************************************************************************)
AllIdle == \A t \in Threads : th[t].pc = "idle"

\* C1: whenever no call is in progress, the memory usage the store reports
\* equals the sum of Size() over the entries present.
C1_MemoryIsSumOfSizes ==
    AllIdle => GetStats(upstreamCache).Memory = TotalSize(upstreamCache)

\* C3 as claimed: after every completed Set the reported memory usage is
\* within the memory budget.
C3_SetKeepsMemoryWithinBudget ==
    last.op = "Set" =>
        GetStats(upstreamCache).Memory <= GetStats(upstreamCache).MaxMemory

\* C3 as amended: after every completed Set the reported memory usage is
\* within the memory budget, or the entry just stored is the only entry of
\* the store.
C3_SetKeepsMemoryWithinBudgetOrAlone ==
    last.op = "Set" =>
        \/ GetStats(upstreamCache).Memory <= GetStats(upstreamCache).MaxMemory
        \/ DOMAIN upstreamCache.entries = {last.key}

\* C3 witness: a Set has evicted to make room and left two entries that
\* fill the budget to the byte.
C3_Witness ==
    /\ last.op = "Set"
    /\ Len(last.evicted) > 0
    /\ Cardinality(DOMAIN upstreamCache.entries) = 2
    /\ upstreamCache.memory = upstreamCache.maxMemory
    /\ upstreamCache.memory = TotalSize(upstreamCache)

\* C4: a Get that is about to return found = true holds the entry stored
\* under its key, and the clock it read in IsExpired was not after that
\* entry's expiry.
C4_HitIsUnexpired ==
    \A t \in SeqThreads :
        th[t].pc = "Get_hit" =>
            /\ th[t].key \in DOMAIN upstreamCache.entries
            /\ upstreamCache.entries[th[t].key] = th[t].entry
            /\ th[t].checked <= th[t].entry.Expiry

\* C4 witness: a Get made exactly at the entry's expiry is a hit.
C4_Witness ==
    \E t \in SeqThreads :
        /\ th[t].pc = "Get_hit"
        /\ th[t].checked = th[t].entry.Expiry
        /\ now > th[t].entry.Expiry

(***************************************************************************)
(* SpecLRU: one caller, a store of capacity 3 with a loose memory budget,  *)
(* four keys.                                                              *)
(***************************************************************************)
LRUKeys == {"a", "b", "c", "d"}

InitLRU ==
    /\ now = 0
    /\ upstreamCache = NewCacheWithMemoryLimit(3, 1, 1, 1000, 1)
    /\ filteredCache = NewCacheWithMemoryLimit(1, 1, 1, 1, 1)
    /\ InitThreads

LRUGet(t) ==
    \/ \E key \in LRUKeys : GetRLock(t, key)
    \/ GetMiss(t)
    \/ GetIsExpired(t)
    \/ GetExpired(t)
    \/ GetHit(t)

LRUSet(t) == \E key \in LRUKeys : Set(t, key, "x", 1, "", "")

NextLRU ==
    \/ \E t \in SeqThreads : LRUGet(t)
    \/ \E t \in SeqThreads : LRUSet(t)
    \/ Tick

SpecLRU == InitLRU /\ [][NextLRU]_vars

\* C5: every entry a Set evicts had, at the moment it was evicted, a
\* last-access time not after that of any other key of the store.
C5_EvictsLeastRecentlyAccessed ==
    \A i \in 1..Len(last.evicted) :
        \A o \in last.evicted[i].others : last.evicted[i].at <= o

\* C5 witness: a and b were stored at time 0 and c at time 1, a was read at
\* time 1, d was stored: b was evicted and a, c, d remain.
C5_Witness ==
    /\ last.op = "Set" /\ last.key = "d"
    /\ Len(last.evicted) = 1
    /\ last.evicted[1].key = "b"
    /\ last.evicted[1].at = 0
    /\ last.evicted[1].others = {1}
    /\ DOMAIN upstreamCache.entries = {"a", "c", "d"}
    /\ upstreamCache.hits = 1
    /\ upstreamCache.accessLRU["a"] = 1
    /\ upstreamCache.accessLRU["c"] = 1
    /\ upstreamCache.entries["a"].Expiry = 1
    /\ upstreamCache.evictions = 1

(***************************************************************************)
(* SpecTTL: one caller, one key, every combination of a minimum and a      *)
(* maximum TTL, TTLs from below both to above both.                        *)
(***************************************************************************)
TTLLimits == {1, 2, 3}
TTLInputs == {-1, 0, 1, 2, 3, 4}

InitTTL ==
    /\ now = 0
    /\ \E minTTL \in TTLLimits, maxTTL \in TTLLimits :
          upstreamCache = NewCacheWithMemoryLimit(2, 1, minTTL, 100, maxTTL)
    /\ filteredCache = NewCacheWithMemoryLimit(1, 1, 1, 1, 1)
    /\ InitThreads

TTLSet(t) == \E ttl \in TTLInputs : Set(t, "a", "x", ttl, "", "")

TTLGet(t) ==
    \/ GetRLock(t, "a")
    \/ GetMiss(t)
    \/ GetIsExpired(t)
    \/ GetExpired(t)
    \/ GetHit(t)

NextTTL ==
    \/ \E t \in SeqThreads : TTLSet(t)
    \/ \E t \in SeqThreads : TTLGet(t)
    \/ Tick

SpecTTL == InitTTL /\ [][NextTTL]_vars

\* The effective TTL of the entry the last Set stored: expiry minus the
\* time of insertion (the clock has not moved since).
EffectiveTTL == upstreamCache.entries[last.key].Expiry - now

\* C6 as claimed: for every configuration the stored entry's effective TTL
\* lies in [minTTL, maxTTL], is minTTL for every ttl below minTTL and
\* maxTTL for every ttl above maxTTL.
C6_TTLClamped ==
    last.op = "Set" =>
        /\ upstreamCache.minTTL <= EffectiveTTL
        /\ EffectiveTTL <= upstreamCache.maxTTL
        /\ last.ttl < upstreamCache.minTTL => EffectiveTTL = upstreamCache.minTTL
        /\ last.ttl > upstreamCache.maxTTL => EffectiveTTL = upstreamCache.maxTTL

\* C6 as amended: the same for every configuration with minTTL <= maxTTL
\* (a ttl inside the range is stored as it is); with minTTL > maxTTL the
\* effective TTL is maxTTL whatever ttl is supplied.
C6_TTLClampedWhenOrdered ==
    last.op = "Set" =>
        IF upstreamCache.minTTL <= upstreamCache.maxTTL
        THEN /\ upstreamCache.minTTL <= EffectiveTTL
             /\ EffectiveTTL <= upstreamCache.maxTTL
             /\ last.ttl < upstreamCache.minTTL => EffectiveTTL = upstreamCache.minTTL
             /\ last.ttl > upstreamCache.maxTTL => EffectiveTTL = upstreamCache.maxTTL
             /\ (upstreamCache.minTTL <= last.ttl /\ last.ttl <= upstreamCache.maxTTL)
                    => EffectiveTTL = last.ttl
        ELSE EffectiveTTL = upstreamCache.maxTTL

\* C6 witness: a Set with ttl zero has stored an entry that lives for the
\* minimum TTL, in a store whose maximum is larger.
C6_Witness ==
    /\ last.op = "Set" /\ last.ttl = 0
    /\ upstreamCache.minTTL = 2 /\ upstreamCache.maxTTL = 3
    /\ EffectiveTTL = 2
    /\ now > 0

(***************************************************************************)
(* SpecConc: two goroutines calling Get, Set and Delete on one store; the  *)
(* lock sections of their calls interleave.                                *)
(***************************************************************************)
ConcKeys == {"a", "b"}
ConcSizes == {1, 2}

InitConc ==
    /\ now = 0
    /\ \E maxSize \in ConcSizes :
          upstreamCache = NewCacheWithMemoryLimit(maxSize, 1, 1, 100, 1)
    /\ filteredCache = NewCacheWithMemoryLimit(1, 1, 1, 1, 1)
    /\ InitThreads

ConcGet(t) ==
    \/ \E key \in ConcKeys : GetRLock(t, key)
    \/ GetMiss(t)
    \/ GetIsExpired(t)
    \/ GetExpired(t)
    \/ GetHit(t)

ConcSet(t) == \E key \in ConcKeys : Set(t, key, "x", 1, "", "")

ConcDelete(t) == \E key \in ConcKeys : Delete(t, key)

NextConc ==
    \/ \E t \in Threads : ConcGet(t)
    \/ \E t \in Threads : ConcSet(t)
    \/ \E t \in Threads : ConcDelete(t)
    \/ Tick

SpecConc == InitConc /\ [][NextConc]_vars

\* C2: in every state between lock sections the number of entries is at
\* most the capacity.
C2_EntryCountWithinCapacity ==
    GetStats(upstreamCache).Entries <= GetStats(upstreamCache).MaxSize

\* C2 witness: a Set has evicted and stored into a full store while another
\* goroutine is in the middle of a Get.
C2_Witness ==
    /\ last.op = "Set" /\ Len(last.evicted) > 0
    /\ GetStats(upstreamCache).Entries = GetStats(upstreamCache).MaxSize
    /\ \E t \in Threads : th[t].pc \in {"Get_check", "Get_hit", "Get_expired"}

\* C7: a Get removes an entry from the store only if that entry has expired
\* (so an entry stored by a completed Set stays until it expires or is
\* deleted or evicted).
C7_GetRemovesOnlyExpired ==
    [][\A t \in Threads :
          (th[t].pc = "Get_expired" /\ th'[t].pc = "idle"
                /\ th[t].key \in DOMAIN upstreamCache.entries)
            => IsExpired(upstreamCache.entries[th[t].key], now)]_vars

(***************************************************************************)
(* SpecServer: the server answering /filter requests one at a time.        *)
(***************************************************************************)
InitServer ==
    /\ now = 0
    /\ upstreamCache = NewServerUpstreamCache
    /\ filteredCache = NewServerFilteredCache
    /\ th = [t \in Threads |-> Idle]
    /\ req = [t \in Threads |-> NoRequest]
    /\ last = NoCall
    /\ hashed = <<>>

ServeHTTP(t) ==
    \/ \E params \in RequestParams : ServeLookup(t, params)
    \/ ResolveLookup(t)
    \/ FetchSend(t)
    \/ OriginAnswer(t)
    \/ ServeBadGateway(t)
    \/ ServeFiltered(t)

NextServer ==
    \/ \E t \in SeqThreads : ServeHTTP(t)
    \/ Tick

SpecServer == InitServer /\ [][NextServer]_vars

\* fetchUpstream has returned to ServeHTTP.
Returned(t) == req[t].pc \in {"resolved", "failed"}

C9_NotModifiedLeavesEntry ==
    [][\A t \in SeqThreads :
          (req[t].pc = "awaiting" /\ req'[t].pc = "resolved" /\ req'[t].notModified)
            => /\ req'[t].data = req[t].before.upstream[req[t].params.Upstream].Data
               /\ req'[t].ttl =
                    req[t].before.upstream[req[t].params.Upstream].Expiry - now
               /\ upstreamCache'.entries = req[t].before.upstream
               /\ upstreamCache'.memory = upstreamCache.memory
               /\ last'.op # "Set"]_vars

\* C9 witness: an entry stored at time 0 until time 2 was revalidated at
\* time 1: one unit is left and the entry still expires at 2.
C9_Witness ==
    \E t \in SeqThreads :
        /\ req[t].pc = "resolved" /\ req[t].notModified
        /\ now = 1 /\ req[t].ttl = 1
        /\ upstreamCache.entries[req[t].params.Upstream].Expiry = 2
        /\ upstreamCache.accessLRU[req[t].params.Upstream] = 1

\* C10: when fetchUpstream fails after a hit of the raw cache, the entries
\* of the raw cache and of the output cache are those held when the call
\* began.
C10_FailureLeavesCaches ==
    \A t \in SeqThreads :
        (req[t].pc = "failed" /\ req[t].found) =>
            /\ upstreamCache.entries = req[t].before.upstream
            /\ filteredCache.entries = req[t].before.filtered
            /\ upstreamCache.entries[req[t].params.Upstream] = req[t].entry

\* C10 witness: the conditional fetch failed while the raw cache held two
\* documents and the output cache two results.
C10_Witness ==
    \E t \in SeqThreads :
        /\ req[t].pc = "failed" /\ req[t].found
        /\ Len(req[t].sent) = 1
        /\ Cardinality(DOMAIN upstreamCache.entries) = 2
        /\ Cardinality(DOMAIN filteredCache.entries) = 2

\* The entry a miss followed by a successful unconditional fetch of resp at
\* time t leaves in the raw cache: Set is called with the response's TTL
\* and stores it clamped.
FreshEntry(resp, t) ==
    Entry(resp.Body, t + ClampTTL(upstreamCache, ResponseTTL(resp)),
          resp.ETag, resp.LastModified)

\* C11: right after fetchUpstream missed the raw cache and stored the
\* response of the unconditional fetch, the raw cache holds for the address
\* the response's payload, etag and last-modified, Set was called with the
\* TTL parsed from the response or, that being zero, the default TTL, and
\* the response's bytes are returned.
C11_MissStoresResponse ==
    \A t \in SeqThreads :
        (req[t].pc = "resolved" /\ ~req[t].found /\ last.op = "Set") =>
            /\ req[t].params.Upstream \in DOMAIN upstreamCache.entries
            /\ upstreamCache.entries[req[t].params.Upstream] = FreshEntry(req[t].resp, now)
            /\ last.key = req[t].params.Upstream
            /\ last.ttl = IF req[t].resp.CacheControl = "max-age=3" THEN 3
                          ELSE cfg.DefaultTTL
            /\ req[t].data = req[t].resp.Body
            /\ req[t].sent[1].conditional = FALSE

\* C11 witness: an expired entry was removed by the lookup and the fetched
\* response, which names a TTL, was stored in its place.
C11_Witness ==
    \E t \in SeqThreads :
        /\ req[t].pc = "resolved" /\ ~req[t].found /\ last.op = "Set"
        /\ req[t].params.Upstream \in DOMAIN req[t].before.upstream
        /\ req[t].resp.CacheControl = "max-age=3"
        /\ req[t].resp.ETag = "e2"
        /\ upstreamCache.entries[req[t].params.Upstream].ETag = "e2"
        /\ req[t].before.upstream[req[t].params.Upstream].ETag = "e1"

\* C12: right after fetchUpstream hit the raw cache and the conditional
\* fetch returned new content, the entry for the address is the one a miss
\* followed by an unconditional fetch of the same response leaves, and the
\* new bytes are returned.
C12_ModifiedReplacesEntry ==
    \A t \in SeqThreads :
        (req[t].pc = "resolved" /\ req[t].found /\ ~req[t].notModified
            /\ last.op = "Set") =>
            /\ req[t].params.Upstream \in DOMAIN upstreamCache.entries
            /\ upstreamCache.entries[req[t].params.Upstream] = FreshEntry(req[t].resp, now)
            /\ req[t].data = req[t].resp.Body
            /\ req[t].sent[1].conditional

\* C12 witness: the cached document "CU" with etag e1 and last-modified Mon
\* was replaced at time 1 by "C" with etag e2 and no last-modified.
C12_Witness ==
    \E t \in SeqThreads :
        /\ req[t].pc = "resolved" /\ req[t].found /\ ~req[t].notModified
        /\ last.op = "Set" /\ now = 1
        /\ req[t].entry = Entry("CU", 1, "e1", "Mon")
        /\ upstreamCache.entries[req[t].params.Upstream] = Entry("C", 3, "e2", "")
        /\ req[t].data = "C"

\* C13: a step in which a request hits the output cache ends the request
\* with status 200 and the bytes of an unexpired entry of the output cache
\* read at that moment; fetchUpstream is not entered, no request is sent to
\* the origin, and the raw cache (entries, access times, counters) is the
\* same after the step as before it.
C13_OutputHitSkipsResolve ==
    [][\A t \in SeqThreads :
          (req[t].pc = "idle" /\ filteredCache'.hits = filteredCache.hits + 1)
            => /\ req'[t].pc = "idle"
               /\ req'[t].status = 200
               /\ req'[t].sent = <<>>
               /\ upstreamCache' = upstreamCache
               /\ \E params \in RequestParams :
                     LET key == createCacheKey(params)
                     IN /\ key \in DOMAIN filteredCache.entries
                        /\ ~IsExpired(filteredCache.entries[key], now)
                        /\ req'[t].body = filteredCache.entries[key].Data
                        /\ filteredCache'.accessLRU[key] = now
                        /\ filteredCache'.entries = filteredCache.entries]_vars

\* C13 witness: the first request missed both caches and filled them, the
\* second one was answered from the output cache; the raw cache was looked
\* up once.
C13_Witness ==
    \E t \in SeqThreads :
        /\ req[t].pc = "idle" /\ req[t].status = 200
        /\ filteredCache.hits = 1 /\ filteredCache.misses = 1
        /\ upstreamCache.hits = 0 /\ upstreamCache.misses = 1
        /\ Cardinality(DOMAIN upstreamCache.entries) = 1
        /\ \E k \in DOMAIN filteredCache.entries :
              /\ filteredCache.entries[k].Data = req[t].body
              /\ filteredCache.accessLRU[k] = 1
              /\ filteredCache.entries[k].Expiry = 1
              /\ now = 1

(***************************************************************************)
(* SpecKey: two calls of HashKey or createCacheKey, whose keys are then    *)
(* compared.                                                               *)
(***************************************************************************)
\* Component contents tried.  A Go string holds any bytes, the byte 0
\* among them: "a^@b" is the three bytes a, 0, b.  No other component of
\* the model contains "^" or "@".
Components == {"", "a", "b", "ab", "a^@b"}

ComponentLists == UNION {[1..n -> Components] : n \in 0..MaxComponents}

\* Filter lists parseParams (server.go:552-609) builds: none; the default
\* fields or one field with a pattern; two indexed filters; one filter with
\* three fields (field=SUMMARY,DESCRIPTION,SUMMARY).
FilterLists ==
    {<<>>,
     <<FilterParam(<<"SUMMARY", "DESCRIPTION">>, "x")>>,
     <<FilterParam(<<"SUMMARY">>, "x")>>,
     <<FilterParam(<<"SUMMARY">>, "DESCRIPTION"), FilterParam(<<"SUMMARY">>, "x")>>,
     <<FilterParam(<<"SUMMARY", "DESCRIPTION", "SUMMARY">>, "x")>>}

ParamSets ==
    {FullParams(u, f, g, l, ru, ri, d) :
        u \in {"http://origin/a.ics", "http://origin/b.ics"},
        f \in FilterLists, g \in {"", "3"}, l \in {"", "x"},
        ru \in BOOLEAN, ri \in BOOLEAN, d \in BOOLEAN}

InitKey ==
    /\ now = 0
    /\ upstreamCache = NewServerUpstreamCache
    /\ filteredCache = NewServerFilteredCache
    /\ InitThreads

HashKeyCall(components) ==
    /\ Len(hashed) < 2
    /\ hashed' = Append(hashed, [fn |-> "HashKey", input |-> components,
                                 key |-> HashKey(components)])
    /\ UNCHANGED <<now, upstreamCache, filteredCache, th, last, req>>

CreateCacheKeyCall(params) ==
    /\ Len(hashed) < 2
    /\ hashed' = Append(hashed, [fn |-> "createCacheKey", input |-> params,
                                 key |-> createCacheKey(params)])
    /\ UNCHANGED <<now, upstreamCache, filteredCache, th, last, req>>

NextKey ==
    \/ \E components \in ComponentLists : HashKeyCall(components)
    \/ \E params \in ParamSets : CreateCacheKeyCall(params)

SpecKey == InitKey /\ [][NextKey]_vars

\* C14: two HashKey calls return the same key only for equal component
\* lists.
C14_HashKeyInjective ==
    \A i, j \in 1..Len(hashed) :
        (hashed[i].fn = "HashKey" /\ hashed[j].fn = "HashKey"
            /\ hashed[i].key = hashed[j].key)
          => hashed[i].input = hashed[j].input

\* C15: two createCacheKey calls return the same key only for equal
\* parameter sets.
C15_CacheKeySeparates ==
    \A i, j \in 1..Len(hashed) :
        (hashed[i].fn = "createCacheKey" /\ hashed[j].fn = "createCacheKey"
            /\ hashed[i].key = hashed[j].key)
          => hashed[i].input = hashed[j].input

\* C16: the step that ends a Get call adds one to hits and leaves misses
\* when the call returns found = true, and adds one to misses and leaves
\* hits otherwise; a hit sets the key's access time to the clock; a miss
\* on a key that was absent leaves entries and access times as they were;
\* the earlier steps of the call change nothing in the store.
C16_GetCountsOnce ==
    [][\A t \in Threads :
          /\ (th[t].pc \in {"Get_miss", "Get_expired", "Get_hit"} /\ th'[t].pc = "idle")
                => /\ last'.op = "Get" /\ last'.key = th[t].key
                   /\ last'.found = (th[t].pc = "Get_hit")
                   /\ last'.found =>
                         /\ upstreamCache'.hits = upstreamCache.hits + 1
                         /\ upstreamCache'.misses = upstreamCache.misses
                         /\ th[t].key \in DOMAIN upstreamCache'.accessLRU
                         /\ upstreamCache'.accessLRU[th[t].key] = now
                   /\ ~last'.found =>
                         /\ upstreamCache'.misses = upstreamCache.misses + 1
                         /\ upstreamCache'.hits = upstreamCache.hits
                   /\ th[t].pc = "Get_miss" =>
                         /\ upstreamCache'.entries = upstreamCache.entries
                         /\ upstreamCache'.accessLRU = upstreamCache.accessLRU
          /\ (th'[t].pc \in {"Get_miss", "Get_check", "Get_expired", "Get_hit"}
                /\ th'[t].pc # th[t].pc)
                => upstreamCache' = upstreamCache]_vars

\* C16 witness: an entry stored at time 0 was read at time 1: one hit, no
\* miss, access time 1.
C16_Witness ==
    /\ last.op = "Get" /\ last.found
    /\ now = 1
    /\ upstreamCache.hits = 1 /\ upstreamCache.misses = 0
    /\ last.key \in DOMAIN upstreamCache.entries
    /\ upstreamCache.accessLRU[last.key] = 1
    /\ upstreamCache.entries[last.key].Expiry = 1

\* C17: with one caller, a Get that read an entry whose expiry the clock
\* has passed takes the expired branch; the step ending it returns a miss,
\* removes the key from the entries and from the access times, lowers the
\* entry count by one and the memory by the entry's size; a Get of a key
\* that is absent (as the key then is) returns a miss and leaves entry
\* count and memory as they were.
C17_ExpiredRemovedOnce ==
    [][\A t \in SeqThreads :
          /\ (th[t].pc = "Get_check" /\ now > th[t].entry.Expiry
                /\ th'[t].pc # "Get_check") => th'[t].pc = "Get_expired"
          /\ (th[t].pc = "Get_expired" /\ th'[t].pc = "idle")
                => /\ th[t].key \in DOMAIN upstreamCache.entries
                   /\ upstreamCache.entries[th[t].key] = th[t].entry
                   /\ last' = Call("Get", th[t].key, 0, FALSE, <<>>)
                   /\ th[t].key \notin DOMAIN upstreamCache'.entries
                   /\ th[t].key \notin DOMAIN upstreamCache'.accessLRU
                   /\ GetStats(upstreamCache').Entries
                        = GetStats(upstreamCache).Entries - 1
                   /\ GetStats(upstreamCache').Memory
                        = GetStats(upstreamCache).Memory - Size(th[t].entry)
          /\ (th[t].pc = "Get_miss" /\ th'[t].pc = "idle")
                => /\ last' = Call("Get", th[t].key, 0, FALSE, <<>>)
                   /\ GetStats(upstreamCache').Entries = GetStats(upstreamCache).Entries
                   /\ GetStats(upstreamCache').Memory = GetStats(upstreamCache).Memory
          /\ (th[t].pc = "idle" /\ th'[t].pc \in {"Get_miss", "Get_check"})
                => (th'[t].pc = "Get_miss"
                      <=> th'[t].key \notin DOMAIN upstreamCache.entries)]_vars

\* C17 witness: after two misses and no hit the store is empty at time 2,
\* the last call being a Get that missed: an entry stored at time 0 was
\* removed by the first Get after its expiry and the second Get found
\* nothing.
C17_Witness ==
    /\ last.op = "Get" /\ ~last.found
    /\ now = 2
    /\ upstreamCache.misses = 2 /\ upstreamCache.hits = 0
    /\ upstreamCache.evictions = 0
    /\ GetStats(upstreamCache).Entries = 0
    /\ GetStats(upstreamCache).Memory = 0
    /\ upstreamCache.accessLRU = <<>>

\* The step of goroutine t is a Set call: one that returned, or one that
\* entered its eviction loop and never leaves it.
SetStep(t) ==
    /\ th[t].pc = "idle"
    /\ last'.op = "Set" \/ th'[t].pc = "Set_spin"

\* The key and the entry of that Set call.
SetKey(t) == IF th'[t].pc = "Set_spin" THEN th'[t].key ELSE last'.key

SetEntry(t) ==
    IF th'[t].pc = "Set_spin" THEN th'[t].entry
    ELSE upstreamCache'.entries[last'.key]

\* C18: a Set of an absent key into a store that holds maxSize entries and
\* whose memory budget has room for the new entry returns having evicted
\* exactly one entry, whose access time was not after any other's; the
\* evictions counter is one higher and the store holds maxSize entries.
C18_FullStoreEvictsOne ==
    [][\A t \in SeqThreads :
          (/\ SetStep(t)
           /\ SetKey(t) \notin DOMAIN upstreamCache.entries
           /\ Cardinality(DOMAIN upstreamCache.entries) = upstreamCache.maxSize
           /\ upstreamCache.memory + Size(SetEntry(t)) <= upstreamCache.maxMemory)
            => /\ last'.op = "Set"
               /\ Len(last'.evicted) = 1
               /\ \A o \in last'.evicted[1].others : last'.evicted[1].at <= o
               /\ last'.evicted[1].key \notin DOMAIN upstreamCache'.entries
               /\ upstreamCache'.evictions = upstreamCache.evictions + 1
               /\ Cardinality(DOMAIN upstreamCache'.entries) = upstreamCache.maxSize]_vars

\* The memory counter once Set has released the size of the entry it
\* overwrites (cache.go:129-131).
ReleasedMemory(t) ==
    IF SetKey(t) \in DOMAIN upstreamCache.entries
    THEN upstreamCache.memory - Size(upstreamCache.entries[SetKey(t)])
    ELSE upstreamCache.memory

\* C19: a Set whose entry would push the memory counter over the budget
\* returns having evicted at least one entry, each eviction taking an entry
\* whose access time was not after any other's, and leaves a store whose
\* entries fit the budget or that holds one entry only.
C19_MemoryEvictsUntilFit ==
    [][\A t \in SeqThreads :
          (/\ SetStep(t)
           /\ ReleasedMemory(t) + Size(SetEntry(t)) > upstreamCache.maxMemory
           /\ upstreamCache.entries # <<>>)
            => /\ last'.op = "Set"
               /\ Len(last'.evicted) >= 1
               /\ \A i \in 1..Len(last'.evicted) :
                     \A o \in last'.evicted[i].others : last'.evicted[i].at <= o
               /\ \/ TotalSize(upstreamCache') <= upstreamCache.maxMemory
                  \/ Cardinality(DOMAIN upstreamCache'.entries) = 1]_vars

\* C20: a Set of a key that is present returns with the key holding the new
\* entry, the same keys in the store as before, and the memory counter
\* changed by the new entry's size minus the old entry's size.
C20_OverwriteIsReplacement ==
    [][\A t \in SeqThreads :
          (SetStep(t) /\ SetKey(t) \in DOMAIN upstreamCache.entries)
            => /\ last'.op = "Set"
               /\ upstreamCache'.entries[SetKey(t)].Expiry
                    = now + ClampTTL(upstreamCache, last'.ttl)
               /\ DOMAIN upstreamCache'.entries = DOMAIN upstreamCache.entries
               /\ \A k \in DOMAIN upstreamCache.entries \ {SetKey(t)} :
                     upstreamCache'.entries[k] = upstreamCache.entries[k]
               /\ upstreamCache'.memory
                    = upstreamCache.memory + Size(SetEntry(t))
                        - Size(upstreamCache.entries[SetKey(t)])]_vars

\* C21: with one caller, a Set that returns leaves its key present with
\* exactly the data, etag and last-modified it was given and the clamped
\* expiry, whatever the payload size; a stored entry changes only by a Set
\* of its key; and a Get of a present key reads that entry, takes the hit
\* branch whenever the clock is not after the expiry, and returns it with
\* found = true.
C21_SetGetRoundTrip ==
    [][\A t \in SeqThreads :
          /\ (th[t].pc = "idle" /\ last'.op = "Set")
                => \A data \in Payloads, v \in Validators :
                      Set(t, last'.key, data, last'.ttl, v[1], v[2])
                        => /\ last'.key \in DOMAIN upstreamCache'.entries
                           /\ upstreamCache'.entries[last'.key]
                                = Entry(data, now + ClampTTL(upstreamCache, last'.ttl),
                                        v[1], v[2])
          /\ \A k \in DOMAIN upstreamCache.entries \cap DOMAIN upstreamCache'.entries :
                upstreamCache'.entries[k] # upstreamCache.entries[k]
                  => (last'.op = "Set" /\ last'.key = k)
          /\ (th[t].pc = "idle" /\ th'[t].pc \in {"Get_miss", "Get_check"}
                /\ th'[t].key \in DOMAIN upstreamCache.entries)
                => /\ th'[t].pc = "Get_check"
                   /\ th'[t].entry = upstreamCache.entries[th'[t].key]
          /\ (th[t].pc = "Get_check" /\ th'[t].pc # "Get_check"
                /\ now <= th[t].entry.Expiry)
                => th'[t].pc = "Get_hit"
          /\ (th[t].pc = "Get_hit" /\ th'[t].pc = "idle")
                => /\ last'.op = "Get" /\ last'.key = th[t].key /\ last'.found
                   /\ last'.entry = th[t].entry
                   /\ th[t].key \in DOMAIN upstreamCache.entries
                   /\ th[t].entry = upstreamCache.entries[th[t].key]]_vars

\* C21 witness: a Get has just returned found = true for an entry that is
\* larger than the whole memory budget, at the last moment of its TTL.
C21_Witness ==
    /\ last.op = "Get" /\ last.found
    /\ last.key \in DOMAIN upstreamCache.entries
    /\ Size(upstreamCache.entries[last.key]) > upstreamCache.maxMemory
    /\ upstreamCache.entries[last.key].Expiry = now
    /\ now > 0

\* C22: a Delete of a present key removes the key from the entries and from
\* the access times and lowers the memory counter by that entry's size; a
\* Delete of an absent key leaves entries and memory as they were and
\* leaves no access time for the key; in both cases the other entries,
\* their access times and the three counters are unchanged.
C22_DeleteFrame ==
    [][last'.op = "Delete" =>
          LET k == last'.key
              c == upstreamCache
              d == upstreamCache'
          IN /\ last'.found = (k \in DOMAIN c.entries)
             /\ k \notin DOMAIN d.entries
             /\ k \notin DOMAIN d.accessLRU
             /\ last'.found => d.memory = c.memory - Size(c.entries[k])
             /\ ~last'.found => (d.memory = c.memory /\ d.entries = c.entries)
             /\ DOMAIN d.entries = DOMAIN c.entries \ {k}
             /\ \A o \in DOMAIN d.entries : d.entries[o] = c.entries[o]
             /\ DOMAIN d.accessLRU = DOMAIN c.accessLRU \ {k}
             /\ \A o \in DOMAIN d.accessLRU : d.accessLRU[o] = c.accessLRU[o]
             /\ d.hits = c.hits /\ d.misses = c.misses
             /\ d.evictions = c.evictions]_vars

\* C22 witness: a Delete has just removed a present key from a store that
\* still holds another entry, after one Get was counted.
C22_Witness ==
    /\ last.op = "Delete" /\ last.found
    /\ Cardinality(DOMAIN upstreamCache.entries) = 1
    /\ upstreamCache.memory = TotalSize(upstreamCache)
    /\ upstreamCache.memory > 0
    /\ upstreamCache.hits + upstreamCache.misses = 1

\* C23: with one caller, a Clear leaves no entry, no access time and a
\* memory counter of zero and keeps hits, misses and evictions; a Get that
\* starts on a store without entries takes the miss branch and returns
\* found = false; and a store without entries gets one only by a Set.
C23_ClearEmpties ==
    [][/\ last'.op = "Clear"
            => /\ GetStats(upstreamCache').Entries = 0
               /\ GetStats(upstreamCache').Memory = 0
               /\ upstreamCache'.accessLRU = <<>>
               /\ GetStats(upstreamCache').Hits = GetStats(upstreamCache).Hits
               /\ GetStats(upstreamCache').Misses = GetStats(upstreamCache).Misses
               /\ GetStats(upstreamCache').Evictions = GetStats(upstreamCache).Evictions
       /\ \A t \in SeqThreads :
            /\ (th[t].pc = "idle" /\ th'[t].pc \in {"Get_miss", "Get_check"}
                  /\ upstreamCache.entries = <<>>) => th'[t].pc = "Get_miss"
            /\ (th[t].pc = "Get_miss" /\ th'[t].pc = "idle")
                  => (last'.op = "Get" /\ ~last'.found)
       /\ (upstreamCache.entries = <<>> /\ upstreamCache'.entries # <<>>)
            => last'.op = "Set"]_vars

\* C23 witness: a Clear has just emptied the store after one hit and one
\* eviction were counted.
C23_Witness ==
    /\ last.op = "Clear"
    /\ upstreamCache.entries = <<>> /\ upstreamCache.memory = 0
    /\ upstreamCache.hits = 1 /\ upstreamCache.evictions = 1

\* C24: a CleanupExpired call removes the entries whose expiry is before
\* the clock and no other, returns how many it removed, lowers the memory
\* counter by the sum of their sizes, drops their access times, and leaves
\* every other entry, every other access time and the three counters as
\* they were.
C24_CleanupRemovesExpired ==
    [][last'.op = "CleanupExpired" =>
          LET c == upstreamCache
              d == upstreamCache'
              gone == {k \in DOMAIN c.entries : c.entries[k].Expiry < now}
          IN /\ DOMAIN d.entries = DOMAIN c.entries \ gone
             /\ \A k \in DOMAIN d.entries : d.entries[k] = c.entries[k]
             /\ last'.removed = Cardinality(gone)
             /\ last'.removed = GetStats(c).Entries - GetStats(d).Entries
             /\ d.memory = c.memory - SumSize(c.entries, gone)
             /\ DOMAIN d.accessLRU = DOMAIN c.accessLRU \ gone
             /\ \A k \in DOMAIN d.accessLRU : d.accessLRU[k] = c.accessLRU[k]
             /\ d.hits = c.hits /\ d.misses = c.misses
             /\ d.evictions = c.evictions]_vars

\* C24 witness: a CleanupExpired call at time 2 has just removed one entry
\* and left one that expires at time 2.
C24_Witness ==
    /\ last.op = "CleanupExpired" /\ last.removed = 1
    /\ now = 2
    /\ Cardinality(DOMAIN upstreamCache.entries) = 1
    /\ \A k \in DOMAIN upstreamCache.entries : upstreamCache.entries[k].Expiry = 2
    /\ upstreamCache.memory = TotalSize(upstreamCache)

(***************************************************************************)
(* GetStats' hit ratio.  Go's float64 is modelled bit by bit: a value is   *)
(* its binary exponent e and its MantissaBits significand bits m, most     *)
(* significant first (m[1] = 1 unless the value is zero), standing for     *)
(* 1.m[2]m[3]... * 2^e; results are rounded to nearest, ties to even.      *)
(***************************************************************************)
MantissaBits == 53

MaxHits == 15     \* largest hit counter drawn
MaxMisses == 7    \* largest miss counter drawn

Float64Zero == [e |-> 0, m |-> [i \in 1..MantissaBits |-> 0]]

\* The binary digits of a natural number, most significant first.
RECURSIVE NatBits(_)
NatBits(n) == IF n = 0 THEN <<>> ELSE NatBits(n \div 2) \o <<n % 2>>

\* bits + 1 on a digit sequence of fixed length (all ones wraps to zeros):
\* the last 0 becomes 1 and the ones after it become 0.
BitsInc(b) ==
    LET zeros == {i \in 1..Len(b) : b[i] = 0}
        k     == IF zeros = {} THEN 0 ELSE CHOOSE i \in zeros : \A j \in zeros : j <= i
    IN  [i \in 1..Len(b) |-> IF i < k THEN b[i] ELSE IF i = k THEN 1 ELSE 0]

\* The float64 nearest to 1.b[2]b[3]... * 2^e (b[1] = 1), where sticky says
\* that nonzero digits follow b: round to nearest, ties to even.
Float64Round(b, sticky, e) ==
    LET kept  == [i \in 1..MantissaBits |-> IF i <= Len(b) THEN b[i] ELSE 0]
        guard == Len(b) > MantissaBits /\ b[MantissaBits + 1] = 1
        rest  == sticky \/ \E i \in (MantissaBits + 2)..Len(b) : b[i] = 1
        up    == guard /\ (rest \/ kept[MantissaBits] = 1)
    IN  IF ~up THEN [e |-> e, m |-> kept]
        ELSE IF \A i \in 1..MantissaBits : kept[i] = 1
             THEN [e |-> e + 1, m |-> [i \in 1..MantissaBits |-> IF i = 1 THEN 1 ELSE 0]]
             ELSE [e |-> e, m |-> BitsInc(kept)]

\* float64(n) of a counter (exact below 2^53).
Float64FromInt(n) ==
    IF n = 0 THEN Float64Zero
    ELSE Float64Round(NatBits(n), FALSE, Len(NatBits(n)) - 1)

\* Long division h / t: the dividend is doubled until the first quotient
\* digit is 1 (h <= t here: hits never exceed the total).
RECURSIVE DivShift(_, _, _)
DivShift(r, t, e) == IF r >= t THEN [r |-> r, e |-> e] ELSE DivShift(2 * r, t, e - 1)

\* n more quotient digits after acc, and the remainder left.
RECURSIVE DivBits(_, _, _, _)
DivBits(r, t, n, acc) ==
    IF n = 0 THEN [bits |-> acc, rem |-> r]
    ELSE IF r >= t THEN DivBits(2 * (r - t), t, n - 1, acc \o <<1>>)
    ELSE DivBits(2 * r, t, n - 1, acc \o <<0>>)

\* float64(h) / float64(t) for counters 0 <= h <= t, t > 0.
Float64Div(h, t) ==
    IF h = 0 THEN Float64Zero
    ELSE LET s == DivShift(h, t, 0)
             d == DivBits(s.r, t, MantissaBits + 1, <<>>)
         IN  Float64Round(d.bits, d.rem # 0, s.e)

\* The digits of (b[1..i] as a number) * n + carry, followed by acc.
RECURSIVE BitsTimes(_, _, _, _, _)
BitsTimes(b, i, n, carry, acc) ==
    IF i = 0 THEN NatBits(carry) \o acc
    ELSE BitsTimes(b, i - 1, n, (b[i] * n + carry) \div 2,
                   <<(b[i] * n + carry) % 2>> \o acc)

\* f * float64(n) for a counter n >= 0.
Float64MulInt(f, n) ==
    IF f = Float64Zero \/ n = 0 THEN Float64Zero
    ELSE LET p == BitsTimes(f.m, MantissaBits, n, 0, <<>>)
         IN  Float64Round(p, FALSE, f.e + Len(p) - MantissaBits)

\* The next float64 above a positive f.
Float64Next(f) ==
    IF \A i \in 1..MantissaBits : f.m[i] = 1
    THEN [e |-> f.e + 1, m |-> [i \in 1..MantissaBits |-> IF i = 1 THEN 1 ELSE 0]]
    ELSE [e |-> f.e, m |-> BitsInc(f.m)]

\* A ratio computed in integer arithmetic before the conversion.
HitRatio_IntegerDivision(c) ==
    LET total == c.hits + c.misses
    IN  IF total > 0 THEN Float64FromInt(c.hits \div total) ELSE Float64Zero

\* cache.go:249-254
HitRatio(c) ==
    LET total == c.hits + c.misses
    IN  IF total > 0 THEN Float64Div(c.hits, total) ELSE Float64Zero

\* GetStats as one call: the whole Stats value is built in one read-lock
\* section (cache.go:245-266).
GetStatsCall(t) ==
    /\ th[t].pc = "idle"
    /\ Unlocked(upstreamCache)
    /\ last' = [Call("GetStats", "", 0, FALSE, <<>>) EXCEPT
                  !.stats = [Stats    |-> GetStats(upstreamCache),
                             HitRatio |-> HitRatio(upstreamCache)]]
    /\ UNCHANGED <<now, upstreamCache, filteredCache, th, req, hashed>>

\* A store whose counters stand anywhere up to MaxHits and MaxMisses.
InitStats ==
    /\ now = 0
    /\ \E hits \in 0..MaxHits, misses \in 0..MaxMisses :
          upstreamCache = [NewCacheWithMemoryLimit(2, 1, 1, 100, 2) EXCEPT
                              !.hits = hits, !.misses = misses]
    /\ filteredCache = NewCacheWithMemoryLimit(1, 1, 1, 1, 1)
    /\ InitThreads

NextStats == \E t \in SeqThreads : GetStatsCall(t)

SpecStats == InitStats /\ [][NextStats]_vars

\* The hit ratio a GetStats call returned, multiplied back by the total of
\* the counters it returned.
RatioTimesTotal ==
    Float64MulInt(last.stats.HitRatio,
                  last.stats.Stats.Hits + last.stats.Stats.Misses)

\* 0.75 = 1.1b * 2^-1
ThreeQuarters == [e |-> -1, m |-> [i \in 1..MantissaBits |-> IF i <= 2 THEN 1 ELSE 0]]

\* C25 as stated: the ratio GetStats reports, times hits + misses, is
\* exactly hits whenever a call was counted, and the ratio is 0 when none
\* was; the pair is the store's pair at the time of the call.
C25_RatioTimesTotalIsHits ==
    last.op = "GetStats" =>
        LET s == last.stats.Stats
        IN  /\ s.Hits = upstreamCache.hits /\ s.Misses = upstreamCache.misses
            /\ s.Hits + s.Misses = 0 => last.stats.HitRatio = Float64Zero
            /\ s.Hits + s.Misses > 0 => RatioTimesTotal = Float64FromInt(s.Hits)

\* C25 as the code has it: the ratio is the float64 quotient of the two
\* counters read in one lock section, so that multiplied back by
\* hits + misses it gives hits or a float64 next to hits; it is exactly
\* 0.75 for 3 hits and 1 miss and 0 when no call was counted.
C25_HitRatioIsRoundedQuotient ==
    last.op = "GetStats" =>
        LET s == last.stats.Stats
            h == Float64FromInt(s.Hits)
        IN  /\ s.Hits = upstreamCache.hits /\ s.Misses = upstreamCache.misses
            /\ s.Hits + s.Misses = 0 => last.stats.HitRatio = Float64Zero
            /\ s.Hits + s.Misses > 0 =>
                  \/ RatioTimesTotal = h
                  \/ RatioTimesTotal = Float64Next(h)
                  \/ Float64Next(RatioTimesTotal) = h
            /\ (s.Hits = 3 /\ s.Misses = 1) => last.stats.HitRatio = ThreeQuarters

\* GetStats returned after 3 hits and 1 miss, with the ratio 0.75.
C25_Witness ==
    /\ last.op = "GetStats"
    /\ last.stats.Stats.Hits = 3
    /\ last.stats.Stats.Misses = 1
    /\ last.stats.HitRatio = ThreeQuarters

(***************************************************************************)
(* SpecSnap: two goroutines calling Get and Set on one key.  Every Set     *)
(* call passes values that name the caller and the time of the call, so    *)
(* that an entry tells which call (or calls) its fields came from.         *)
(***************************************************************************)
SnapKey == "a"

Stamps == <<"0", "1", "2", "3", "4", "5">>

\* The arguments goroutine t passes to Set at time time.
SnapData(t, time) == (IF t = 1 THEN "x" ELSE "y") \o Stamps[time + 1]
SnapTTL(t) == t
SnapETag(t) == IF t = 1 THEN "e1" ELSE "e2"
SnapLastModified(t) == IF t = 1 THEN "Mon" ELSE "Tue"

InitSnap ==
    /\ now = 0
    /\ upstreamCache = NewCacheWithMemoryLimit(2, 1, 1, 100, 2)
    /\ filteredCache = NewCacheWithMemoryLimit(1, 1, 1, 1, 1)
    /\ InitThreads

SnapGet(t) ==
    \/ GetRLock(t, SnapKey)
    \/ GetMiss(t)
    \/ GetIsExpired(t)
    \/ GetExpired(t)
    \/ GetHit(t)

SnapSet(t) ==
    Set(t, SnapKey, SnapData(t, now), SnapTTL(t), SnapETag(t), SnapLastModified(t))

NextSnap ==
    \/ \E t \in Threads : SnapGet(t)
    \/ \E t \in Threads : SnapSet(t)
    \/ Tick

SpecSnap == InitSnap /\ [][NextSnap]_vars

\* The entry the Set call of goroutine t at time time creates (cache.go:119-125).
SnapEntry(t, time) ==
    Entry(SnapData(t, time), time + ClampTTL(upstreamCache, SnapTTL(t)),
          SnapETag(t), SnapLastModified(t))

\* C26: the entry a Get returns with found = true, whatever Set calls ran
\* on the key while the Get was in progress, has its data, expiry, etag and
\* last-modified all from one Set call: it is the entry one goroutine's Set
\* created at one time, never fields of two calls.
C26_GetReturnsOneSetsEntry ==
    (last.op = "Get" /\ last.found) =>
        \E t \in Threads, time \in 0..now : last.entry = SnapEntry(t, time)

\* C26 witness: a Get has returned the complete entry goroutine 2 stored at
\* time 0 although, between the Get's map read and its return, goroutine 2
\* replaced it by the entry of a Set at time 1.
C26_Witness ==
    /\ last.op = "Get" /\ last.found
    /\ last.entry = SnapEntry(2, 0)
    /\ SnapKey \in DOMAIN upstreamCache.entries
    /\ upstreamCache.entries[SnapKey] = SnapEntry(2, 1)

\* C27: the lock section in which a Get removes an expired entry lowers the
\* memory counter by the size of the entry it takes out of the store, and by
\* nothing when another Get or a Delete has already removed the entry, so
\* that an entry's size is subtracted exactly once and the counter stays the
\* sum of the sizes of the entries present.
C27_ExpiredSizeSubtractedOnce ==
    [][\A t \in Threads :
          (th[t].pc = "Get_expired" /\ th'[t].pc = "idle")
            => upstreamCache'.memory
                 = upstreamCache.memory
                     - (IF th[t].key \in DOMAIN upstreamCache.entries
                        THEN Size(upstreamCache.entries[th[t].key])
                        ELSE 0)]_vars

\* C28: the evictions counter moves only in a Set call, and there by exactly
\* the number of entries the call's eviction loop removed from the store
\* (the entries held before, plus the one inserted when the key was absent
\* or was itself evicted, minus the entries held after; a Set that never
\* leaves its loop inserts nothing).
C28_EvictionsCountRemovedEntries ==
    [][IF last'.op = "Set"
       THEN LET k        == last'.key
                evicted  == {last'.evicted[i].key : i \in 1..Len(last'.evicted)}
                inserted == IF k \notin DOMAIN upstreamCache.entries \/ k \in evicted
                            THEN 1 ELSE 0
                removed  == Cardinality(DOMAIN upstreamCache.entries) + inserted
                              - Cardinality(DOMAIN upstreamCache'.entries)
            IN  upstreamCache'.evictions - upstreamCache.evictions = removed
       ELSE IF \E t \in Threads : th[t].pc = "idle" /\ th'[t].pc = "Set_spin"
       THEN upstreamCache'.evictions - upstreamCache.evictions
              = Cardinality(DOMAIN upstreamCache.entries)
                  - Cardinality(DOMAIN upstreamCache'.entries)
       ELSE upstreamCache'.evictions = upstreamCache.evictions]_vars

\* Every entry of store c was there, unchanged, in the map before.
NothingWritten(c, before) ==
    \A k \in DOMAIN c.entries : k \in DOMAIN before /\ before[k] = c.entries[k]

\* C29: a fetch of the origin that fails (no answer, an error status, an
\* address the fetcher rejects) makes fetchUpstream return an error and
\* never a payload; the request then ends with status 502 and nothing else,
\* and from its cache lookups to its end neither the raw-document cache nor
\* the output cache has gained or changed an entry.
C29_FailedFetchWritesNothing ==
    [][\A t \in SeqThreads :
          /\ (req[t].pc = "awaiting" /\ req'[t].pc = "resolved")
                => (req'[t].notModified \/ req'[t].resp.StatusCode = 200)
          /\ (req[t].pc \in {"fetch", "awaiting"} /\ req'[t].pc = "failed")
                => /\ upstreamCache'.entries = upstreamCache.entries
                   /\ filteredCache'.entries = filteredCache.entries
          /\ req[t].pc = "failed"
                => /\ NothingWritten(upstreamCache, req[t].before.upstream)
                   /\ NothingWritten(filteredCache, req[t].before.filtered)
          /\ (req[t].pc = "failed" /\ req'[t] # req[t])
                => /\ req'[t] = [NoRequest EXCEPT !.status = 502]
                   /\ NothingWritten(upstreamCache', req[t].before.upstream)
                   /\ NothingWritten(filteredCache', req[t].before.filtered)]_vars

\* C29 witness: the conditional fetch for a cached document has failed; the
\* request is about to end and the raw cache still holds the document while
\* the output cache holds nothing for the request.
C29_Witness ==
    \E t \in SeqThreads :
        /\ req[t].pc = "failed"
        /\ req[t].found
        /\ Len(req[t].sent) = 1
        /\ req[t].params.Upstream \in DOMAIN upstreamCache.entries
        /\ req[t].cacheKey \notin DOMAIN filteredCache.entries

\* C30: fetchUpstream returns a payload only in two ways: after a hit of the
\* raw cache and a not-modified answer, the payload of the entry its Get
\* returned, the raw cache left as it was; or the body of the 200 response
\* it has just received.  After a miss a 304 answer is an error: the call
\* fails, returns no payload and leaves the raw cache as it was.
C30_NotModifiedNeedsEntry ==
    [][\A t \in SeqThreads :
          /\ (req[t].pc = "awaiting" /\ req'[t].pc = "resolved")
                => IF req'[t].notModified
                   THEN /\ req[t].found
                        /\ req'[t].data = req[t].entry.Data
                        /\ upstreamCache' = upstreamCache
                   ELSE /\ req'[t].resp.StatusCode = 200
                        /\ req'[t].data = req'[t].resp.Body
          /\ (req[t].pc = "awaiting" /\ req'[t].pc = "failed")
                => /\ req'[t].data = ""
                   /\ ~req'[t].notModified
                   /\ upstreamCache' = upstreamCache
                   /\ filteredCache' = filteredCache
          /\ (req[t].pc = "awaiting" /\ ~req[t].found /\ req'[t].pc # "awaiting")
                => (req'[t].resp.StatusCode = 200 \/ req'[t].pc = "failed")]_vars

\* C30 witness: after a miss of the raw cache the origin answered the
\* unconditional request with 304; fetchUpstream has failed without a
\* payload and the raw cache holds nothing for the address.
C30_Witness ==
    \E t \in SeqThreads :
        /\ req[t].pc = "failed"
        /\ ~req[t].found
        /\ Len(req[t].sent) = 1 /\ ~req[t].sent[1].conditional
        /\ req[t].resp.StatusCode = 304
        /\ req[t].data = ""
        /\ req[t].params.Upstream \notin DOMAIN upstreamCache.entries

(***************************************************************************)
(* SpecNew: stores built by NewCacheWithMemoryLimit from any limits a      *)
(* caller passes (cache.go:52-66 checks none of its arguments), then used  *)
(* by one caller.                                                          *)
(***************************************************************************)
NewSizes == {-1, 0, 1}
NewMemories == {-1, 0, 100}

InitNew ==
    /\ now = 0
    /\ \E maxSize \in NewSizes, maxMemory \in NewMemories :
          upstreamCache = NewCacheWithMemoryLimit(maxSize, 1, 1, maxMemory, 2)
    /\ filteredCache = NewCacheWithMemoryLimit(1, 1, 1, 1, 1)
    /\ InitThreads

SpecNew == InitNew /\ [][Next]_vars

\* C31: a store on which a Get or a Set has run has a positive entry
\* capacity and a positive memory budget (a store with other limits is
\* never created).
C31_LimitsPositive ==
    last.op \in {"Get", "Set"} =>
        upstreamCache.maxSize > 0 /\ upstreamCache.maxMemory > 0

\* C32: every Set call returns and releases the lock: no Set is ever left
\* inside its eviction loop with the store locked, whatever key it was given.
C32_SetTerminates ==
    /\ Unlocked(upstreamCache)
    /\ \A t \in Threads : th[t].pc # "Set_spin"

\* C33 as stated: the max-age of every 200 response of /filter is at least
\* the configured minimum output cache duration.
C33_MaxAgeAtLeastMinimum ==
    \A t \in SeqThreads :
        req[t].status = 200 => req[t].maxAge >= cfg.MinOutputCache

\* C33 as the code has it: a 200 response computed for the request
\* advertises the TTL fetchUpstream returned, raised to the minimum output
\* cache duration; a 200 response served from the output cache advertises
\* the time left until the cached entry expires, which is never negative
\* and may be anything down to zero.
C33_MaxAgeComputedOrRemaining ==
    [][\A t \in SeqThreads :
          /\ (req[t].pc = "resolved" /\ req'[t].status = 200 /\ req'[t].pc = "idle")
                => /\ req'[t].maxAge >= cfg.MinOutputCache
                   /\ req'[t].maxAge >= req[t].ttl
                   /\ req'[t].maxAge \in {cfg.MinOutputCache, req[t].ttl}
          /\ (req[t].pc = "idle" /\ req'[t].pc = "idle"
                /\ filteredCache'.hits = filteredCache.hits + 1)
                => /\ req'[t].status = 200
                   /\ req'[t].maxAge >= 0
                   /\ \E k \in DOMAIN filteredCache.entries :
                         /\ req'[t].body = filteredCache.entries[k].Data
                         /\ req'[t].maxAge = filteredCache.entries[k].Expiry - now]_vars

\* C33 witness: a request has been served from the output cache at the very
\* instant the cached entry expires, with a max-age of zero.
C33_Witness ==
    \E t \in SeqThreads :
        /\ req[t].pc = "idle" /\ req[t].status = 200
        /\ req[t].maxAge = 0
        /\ filteredCache.hits > 0
        /\ \E k \in DOMAIN filteredCache.entries : filteredCache.entries[k].Expiry = now

\* C34: a Set of an absent key into a store that holds fewer than maxSize
\* entries and whose memory counter plus the new entry's size is within the
\* budget returns having evicted nothing: every entry present before is
\* present and unchanged afterwards, the new entry is added and the
\* evictions counter is unchanged.
C34_RoomMeansNoEviction ==
    [][\A t \in SeqThreads :
          (/\ SetStep(t)
           /\ SetKey(t) \notin DOMAIN upstreamCache.entries
           /\ Cardinality(DOMAIN upstreamCache.entries) < upstreamCache.maxSize
           /\ upstreamCache.memory + Size(SetEntry(t)) <= upstreamCache.maxMemory)
            => /\ last'.op = "Set"
               /\ last'.evicted = <<>>
               /\ upstreamCache'.evictions = upstreamCache.evictions
               /\ DOMAIN upstreamCache'.entries
                    = DOMAIN upstreamCache.entries \cup {last'.key}
               /\ \A k \in DOMAIN upstreamCache.entries :
                     upstreamCache'.entries[k] = upstreamCache.entries[k]]_vars

\* C34 witness: a Set has just returned without evicting, in a store of
\* capacity 2 that now holds two entries and has never evicted: the Set
\* added a second key to a store that held one.
C34_Witness ==
    /\ last.op = "Set" /\ last.evicted = <<>>
    /\ upstreamCache.maxSize = 2
    /\ Cardinality(DOMAIN upstreamCache.entries) = 2
    /\ upstreamCache.evictions = 0
    /\ upstreamCache.memory <= upstreamCache.maxMemory

\* C35: an entry changes only by a Set of its key: in every step a key
\* that is in the store before and after holds the same data, expiry, etag
\* and last-modified unless the step is a Set of that key; in particular
\* the section in which a Get records its hit changes no entry and brings
\* the key's access time to the present.
C35_OnlySetChangesEntry ==
    [][/\ \A k \in DOMAIN upstreamCache.entries \cap DOMAIN upstreamCache'.entries :
             upstreamCache'.entries[k] # upstreamCache.entries[k]
                => /\ last'.op = "Set" /\ last'.key = k
                   /\ \E t \in Threads : th[t].pc = "idle" /\ th'[t].pc = "idle"
       /\ \A t \in Threads :
             (th[t].pc = "Get_hit" /\ th'[t].pc = "idle")
                => /\ upstreamCache'.entries = upstreamCache.entries
                   /\ upstreamCache'.accessLRU[th[t].key] = now]_vars

\* C35 witness: a Get has just returned a hit, at a later time than the
\* entry was stored; the entry in the store is the one returned, its expiry
\* is still one TTL after the Set, and its access time is the present.
C35_Witness ==
    /\ last.op = "Get" /\ last.found
    /\ last.key \in DOMAIN upstreamCache.entries
    /\ upstreamCache.entries[last.key] = last.entry
    /\ upstreamCache.accessLRU[last.key] = now
    /\ last.entry.Expiry = now
    /\ upstreamCache.hits = 1

(***************************************************************************)
(* SpecService: the running service (main, server.New, server.Start):      *)
(* requests arrive when clients send them; a request in progress runs to   *)
(* its end and the clock advances.  Nothing else runs: neither New nor     *)
(* Start starts a timer or a goroutine of its own (server.go:37-68,        *)
(* 1005-1029), and nothing calls CleanupExpired.                           *)
(***************************************************************************)
RequestProgress(t) ==
    \/ ResolveLookup(t)
    \/ FetchSend(t)
    \/ OriginAnswer(t)
    \/ ServeBadGateway(t)
    \/ ServeFiltered(t)

SpecService ==
    /\ InitServer
    /\ [][NextServer]_vars
    /\ WF_vars(Tick)
    /\ \A t \in SeqThreads : WF_vars(RequestProgress(t))

\* C36: an entry that has expired is eventually gone from its store, in the
\* raw-document cache and in the output cache, whether or not anybody asks
\* for it again.
C36_ExpiredEventuallyRemoved ==
    /\ \A p \in RequestParams :
          (p.Upstream \in ExpiredKeys(upstreamCache, now))
             ~> (p.Upstream \notin ExpiredKeys(upstreamCache, now))
    /\ \A p \in RequestParams :
          (createCacheKey(p) \in ExpiredKeys(filteredCache, now))
             ~> (createCacheKey(p) \notin ExpiredKeys(filteredCache, now))

\* C37: when fetchUpstream stores a fetched document (after a miss, or after
\* a hit answered with new content), the TTL it returns is the effective TTL
\* of the entry it has just stored: that entry's expiry minus the present.
C37_ReturnedTTLIsStoredTTL ==
    [][\A t \in SeqThreads :
          (req[t].pc = "awaiting" /\ req'[t].pc = "resolved" /\ ~req'[t].notModified)
            => /\ req[t].params.Upstream \in DOMAIN upstreamCache'.entries
               /\ req'[t].ttl
                    = upstreamCache'.entries[req[t].params.Upstream].Expiry - now]_vars

(***************************************************************************)
(* SpecResolve: two requests running fetchUpstream (server.go:471-508) for *)
(* one address at the same time.  The Get inside fetchUpstream runs in its *)
(* lock sections, the fetch waits for the origin, the Set is one section;  *)
(* the sections of the two calls interleave.  The raw cache starts empty   *)
(* or holding a document stored for the address at time 0.                 *)
(***************************************************************************)
ResolveAddress == "http://origin/a.ics"

InitResolve ==
    /\ now = 0
    /\ upstreamCache \in
          {NewServerUpstreamCache} \cup
          {s.c : s \in CacheSet(NewServerUpstreamCache, ResolveAddress, "CU",
                                cfg.DefaultTTL, "e1", "Mon", 0)}
    /\ filteredCache = NewServerFilteredCache
    /\ InitThreads

\* ServeHTTP calls fetchUpstream (server.go:125); each request does so once.
ResolveStart(t) ==
    /\ req[t].pc = "idle" /\ req[t].status = 0
    /\ req' = [req EXCEPT ![t] =
                 [NoRequest EXCEPT !.pc = "fetchUpstream",
                                   !.params = Params(ResolveAddress, FALSE),
                                   !.status = 1]]
    /\ last' = NoCall
    /\ UNCHANGED <<now, upstreamCache, filteredCache, th, hashed>>

\* The first sections of upstreamCache.Get (server.go:473, cache.go:71-83).
ResolveGet(t) ==
    /\ req[t].pc = "fetchUpstream"
    /\ \/ GetRLock(t, req[t].params.Upstream)
       \/ GetIsExpired(t)

\* The last section of that Get and its return to fetchUpstream
\* (cache.go:75-100, server.go:473).
ResolveGetReturn(t) ==
    /\ req[t].pc = "fetchUpstream"
    /\ th[t].pc \in {"Get_miss", "Get_expired", "Get_hit"}
    /\ Unlocked(upstreamCache)
    /\ upstreamCache' =
          IF th[t].pc = "Get_miss" THEN GetMissSection(upstreamCache)
          ELSE IF th[t].pc = "Get_expired"
          THEN GetExpiredSection(upstreamCache, th[t].key, th[t].entry)
          ELSE GetHitSection(upstreamCache, th[t].key, now)
    /\ req' = [req EXCEPT ![t].pc = "fetch",
                          ![t].found = (th[t].pc = "Get_hit"),
                          ![t].entry = IF th[t].pc = "Get_hit" THEN th[t].entry
                                       ELSE NilEntry,
                          ![t].before = [upstream |-> upstreamCache.entries,
                                         filtered |-> filteredCache.entries]]
    /\ th' = [th EXCEPT ![t] = Idle]
    /\ last' = [Call("Get", th[t].key, 0, th[t].pc = "Get_hit", <<>>) EXCEPT
                  !.entry = IF th[t].pc = "Get_hit" THEN th[t].entry ELSE NilEntry]
    /\ UNCHANGED <<now, filteredCache, hashed>>

NextResolve ==
    \/ \E t \in Threads : ResolveStart(t)
    \/ \E t \in Threads : ResolveGet(t)
    \/ \E t \in Threads : ResolveGetReturn(t)
    \/ \E t \in Threads : FetchSend(t)
    \/ \E t \in Threads : OriginAnswer(t)
    \/ Tick

SpecResolve == InitResolve /\ [][NextResolve]_vars

\* C38: when two fetchUpstream calls for one address have both found no
\* usable entry, both asked the origin and both returned a document, the raw
\* cache holds an entry for the address and that entry is, whole, the one
\* made from the response of one of the two calls: its payload, etag and
\* last-modified are that response's and its expiry is the clamped TTL of
\* that response after the time of its Set.
C38_OneResponseWins ==
    (\A t \in Threads :
        /\ req[t].pc = "resolved"
        /\ ~req[t].found
        /\ Len(req[t].sent) = 1)
    => /\ ResolveAddress \in DOMAIN upstreamCache.entries
       /\ \E t \in Threads, time \in 0..now :
             upstreamCache.entries[ResolveAddress] = FreshEntry(req[t].resp, time)

\* C38 witness: both calls missed, both fetched, and the origin gave them
\* different documents; the raw cache holds the second one.
C38_Witness ==
    /\ \A t \in Threads :
          req[t].pc = "resolved" /\ ~req[t].found /\ Len(req[t].sent) = 1
    /\ req[1].resp.Body = "CU" /\ req[1].resp.ETag = "e1"
    /\ req[2].resp.Body = "C" /\ req[2].resp.ETag = "e2"
    /\ ResolveAddress \in DOMAIN upstreamCache.entries
    /\ upstreamCache.entries[ResolveAddress].Data = "C"

(***************************************************************************)
(* SpecOutput: ServeHTTP with requests whose transformation can fail.  The *)
(* raw cache starts empty or holding, for one address, a body the origin   *)
(* once answered with status 200 that is not a calendar; one request names *)
(* a filter whose pattern does not compile.                                *)
(***************************************************************************)
OutputParams ==
    {Params("http://origin/a.ics", FALSE), Params("http://origin/a.ics", TRUE),
     FullParams("http://origin/a.ics", <<FilterParam(<<"SUMMARY">>, BadPattern)>>,
                "", "", FALSE, FALSE, FALSE)}

InitOutput ==
    /\ now = 0
    /\ upstreamCache \in
          {NewServerUpstreamCache} \cup
          {s.c : s \in CacheSet(NewServerUpstreamCache, "http://origin/a.ics", "X",
                                cfg.DefaultTTL, "e0", "", 0)}
    /\ filteredCache = NewServerFilteredCache
    /\ InitThreads

ServeOutput(t) ==
    \/ \E params \in OutputParams : ServeLookup(t, params)
    \/ ResolveLookup(t)
    \/ FetchSend(t)
    \/ OriginAnswer(t)
    \/ ServeBadGateway(t)
    \/ ServeFiltered(t)

NextOutput ==
    \/ \E t \in SeqThreads : ServeOutput(t)
    \/ Tick

SpecOutput == InitOutput /\ [][NextOutput]_vars

\* C39: when fetchUpstream has returned a document and parsing, filtering
\* and serialization succeed, ServeHTTP calls Set on the output cache with
\* the request's fingerprint, the TTL fetchUpstream returned and empty
\* validators, the entry then held under the fingerprint carries the
\* transformed bytes, and those bytes are the body of the answer; when
\* fetchUpstream or one of the later steps fails the output cache is left as
\* it was; an entry of the output cache changes in no other step; and an
\* output-cache hit answers with the bytes of the entry held under the
\* fingerprint, so a hit on the stored entry sends the body the storing
\* request sent.
C39_StoredOutputIsServed ==
    [][/\ \A t \in SeqThreads :
            /\ (req[t].pc = "resolved" /\ req'[t].pc = "idle") =>
                 LET key == createCacheKey(req[t].params)
                     output == Transform(req[t].data, req[t].params)
                 IN IF TransformStatus(req[t].data, req[t].params) = 200
                    THEN /\ last' = Call("Set", key, req[t].ttl, FALSE, last'.evicted)
                         /\ key \in DOMAIN filteredCache'.entries
                         /\ filteredCache'.entries[key]
                              = Entry(output, now + ClampTTL(filteredCache, req[t].ttl),
                                      "", "")
                         /\ req'[t].status = 200
                         /\ req'[t].body = filteredCache'.entries[key].Data
                    ELSE /\ filteredCache' = filteredCache
                         /\ req'[t].status \in {400, 500}
            /\ (req[t].pc = "failed" /\ req'[t].pc = "idle")
                 => filteredCache' = filteredCache
            /\ (req[t].pc = "idle" /\ filteredCache'.hits = filteredCache.hits + 1)
                 => \E params \in OutputParams :
                       LET key == createCacheKey(params)
                       IN /\ key \in DOMAIN filteredCache.entries
                          /\ filteredCache' = GetHitSection(filteredCache, key, now)
                          /\ req'[t].pc = "idle" /\ req'[t].status = 200
                          /\ req'[t].body = filteredCache.entries[key].Data
       /\ \A k \in DOMAIN filteredCache'.entries :
            (k \notin DOMAIN filteredCache.entries
               \/ filteredCache'.entries[k] # filteredCache.entries[k])
              => \E t \in SeqThreads :
                    /\ req[t].pc = "resolved" /\ req[t].cacheKey = k
                    /\ req'[t].status = 200
                    /\ req'[t].body = filteredCache'.entries[k].Data]_vars

\* C39 witness: the raw cache holds "CU", the request that removes
\* unconfirmed events stored "C" under its fingerprint with empty validators,
\* and a later request was answered "C" by an output-cache hit; a request
\* whose document did not parse left the output cache with that one entry.
C39_Witness ==
    /\ "http://origin/a.ics" \in DOMAIN upstreamCache.entries
    /\ upstreamCache.entries["http://origin/a.ics"].Data = "CU"
    /\ DOMAIN filteredCache.entries
         = {createCacheKey(Params("http://origin/a.ics", TRUE))}
    /\ filteredCache.entries[createCacheKey(Params("http://origin/a.ics", TRUE))].Data = "C"
    /\ filteredCache.entries[createCacheKey(Params("http://origin/a.ics", TRUE))].ETag = ""
    /\ filteredCache.hits = 1
    /\ \E t \in SeqThreads :
          req[t].pc = "idle" /\ req[t].status = 200 /\ req[t].body = "C"

\* C40: in every state, the states between the lock sections of concurrent
\* Get, Set and Delete calls included, the keys with a recorded last-access
\* time are exactly the keys of the entry map.
C40_AccessKeysAreEntryKeys ==
    DOMAIN upstreamCache.accessLRU = DOMAIN upstreamCache.entries
====
